---- MODULE Spec2Model ----
(***************************************************************************)
(* A model of the mead media core: the AV1 encoder wrapper (send_frame /   *)
(* receive_packet / finish over a rav1e context), the tile sizing          *)
(* function Av1Config::calculate_tiles, and the IVF muxer's byte layout.   *)
(*                                                                         *)
(* It also covers the MP4 demuxer (track selection and sample reads over   *)
(* the mp4 reader) and the Y4M demuxer (open and read_frame).              *)
(*                                                                         *)
(* The specifications share the module's variables; each one moves its     *)
(* own component and leaves the other components in their idle state:      *)
(*   Spec      the Av1Encoder state machine                                *)
(*   SpecTiles calculate_tiles applied to drawn (width, height, threads)   *)
(*   SpecIvf   IvfMuxer::new, write_packet, finalize over a byte sink      *)
(*   SpecMp4   Mp4Demuxer::new, select_*, read_packet over a drawn file    *)
(*   SpecY4m   Y4mDemuxer::new and read_frame over a drawn stream          *)
(*   SpecFrame Frame::new, Plane::new, Plane::from_data, row, row_mut      *)
(*   SpecSvt   SvtAv1Encoder over the SVT-AV1 library, next to an          *)
(*             Av1Encoder given the same calls                             *)
(*   SpecConfig Av1Encoder::with_config resolving threads and tiles        *)
(*   SpecEncode handle_encode: frames read, encoded and written to IVF     *)
(*                                                                         *)
(* TLC's integers are 32 bits wide: every u32/u64/i64 value of the model   *)
(* is drawn below 2^31 in absolute value, and the little-endian encoders   *)
(* produce the bytes of the full-width value for that range.               *)
(***************************************************************************)
EXTENDS Integers, Sequences, FiniteSets, TLC

VARIABLES
    enc,        \* Av1Encoder: [width, height] (fields of the struct)
    ctx,        \* Av1Encoder.context: the rav1e context behind the wrapper
    lastCall,   \* the last call on the encoder, what it got and what it returned
    received,   \* every packet handed to the caller so far, in order
    eos,        \* send_frame(None) has been called (directly or by finish)
    finished,   \* finish() has returned Ok
    tileIn,     \* calculate_tiles arguments [width, height, threads]
    tileOut,    \* calculate_tiles result <<cols, rows>>, <<0, 0>> before the call
    mux,        \* IvfMuxer: [state, frame_count, width, height, header]
    sink,       \* the bytes of the muxer's writer
    written,    \* the packets write_packet accepted, in order
    ivfLast,    \* the last call on the muxer and its result
    rejected,   \* some write_packet call was refused with InvalidInput
    writer,     \* the muxer's writer: the room it has, and whether a write failed
    ivfArgs,    \* the arguments IvfMuxer::new was called with
    mp4File,    \* the MP4 source and what the mp4 reader finds in it
    dmx,        \* Mp4Demuxer: [state, current_track, current_sample, metadata]
    mp4Last,    \* the last call on the demuxer and its result
    mp4Run,     \* the selection in force and the reads made since it was made
    mp4Ended,   \* the track whose end was reported, until the caller selects
    srcReads,   \* reads made on the MP4 source so far
    y4mFile,    \* the Y4M stream: its header and the frames behind it
    y4m,        \* Y4mDemuxer: [state, width, height, pixel_format, frame_count, pos]
    y4mLast,    \* the last call on the Y4M demuxer and its result
    frameArgs,  \* the arguments drawn for Frame::new and for the Plane constructor
    frame,      \* the Frame built by Frame::new
    plane,      \* the Plane built by Plane::new or Plane::from_data
    frameLast,  \* the last call on the frame or the plane and its result
    frameWrites, \* set_pts, planes_mut and data_mut calls made so far
    svtCfg,     \* SvtAv1Config given to SvtAv1Encoder::new and the library's answers
    svt,        \* SvtAv1Encoder: [state, width, height, frame_count]
    svtLib,     \* the SVT-AV1 library: the handle and the pictures inside it
    svtLast,    \* the last call on the SvtAv1Encoder and its result
    svtOut,     \* the packets the SvtAv1Encoder handed to the caller, in order
    cfgIn,      \* with_config arguments and the core count of the machine
    cfgOut,     \* the threads and tiles with_config gives the encoder
    pipe,       \* handle_encode: its position, the input left, frame_count
    pipeOut     \* the packets handle_encode gave to write_packet, in order

encVars == <<enc, ctx, lastCall, received, eos, finished>>
tileVars == <<tileIn, tileOut>>
ivfVars == <<mux, sink, written, ivfLast, rejected, writer, ivfArgs>>
mp4Vars == <<mp4File, dmx, mp4Last, mp4Run, mp4Ended, srcReads>>
y4mVars == <<y4mFile, y4m, y4mLast>>
frameVars == <<frameArgs, frame, plane, frameLast, frameWrites>>
svtVars == <<svtCfg, svt, svtLib, svtLast, svtOut>>
cfgVars == <<cfgIn, cfgOut>>
pipeVars == <<pipe, pipeOut>>
vars == <<enc, ctx, lastCall, received, eos, finished, tileIn, tileOut, mux, sink, written, ivfLast, rejected, writer, ivfArgs,
          mp4File, dmx, mp4Last, mp4Run, mp4Ended, srcReads, y4mFile, y4m, y4mLast,
          frameArgs, frame, plane, frameLast, frameWrites, svtCfg, svt, svtLib, svtLast, svtOut,
          cfgIn, cfgOut, pipe, pipeOut>>

(***************************************************************************)
(* Bounds of the model.                                                    *)
(***************************************************************************)
MaxFrames == 3
\* MaxLookahead is as large as MaxFrames: the library may hold every frame
\* back until the flush.
MaxLookahead == 3
MaxHidden == 1
MaxThreads == 16
MaxDimSteps == 34
MaxPackets == 3
MaxSamples == 2
MaxY4mFrames == 2
MaxDim == 3
MaxWrites == 1

(***************************************************************************)
(* Values shared by the components.                                        *)
(***************************************************************************)
PixelFormats == {"Yuv420p", "Yuv422p", "Yuv444p", "Rgb24"}

Ok(v) == [tag |-> "Ok", class |-> "", val |-> v]
Err(c) == [tag |-> "Err", class |-> c, val |-> <<>>]
None == <<>>
Some(x) == <<x>>

(***************************************************************************)
(* Frames offered to the encoder: Frame::new(width, height, format).       *)
(***************************************************************************)
FrameSizes == {32, 64}
Frames == [width : FrameSizes, height : FrameSizes, format : PixelFormats]
NoFrame == [width |-> 0, height |-> 0, format |-> "none"]

(***************************************************************************)
(* The rav1e context as the wrapper sees it.  frame_count frames were      *)
(* accepted, frames_processed packets were emitted; packet k is the        *)
(* encoding of the k-th accepted frame.  lookahead is the number of        *)
(* frames the encoder holds back while more input may come.  hidden_plan   *)
(* gives, for packet k, the number of encode steps without output (status  *)
(* Encoded) that precede it, none for a packet past the plan's end; hidden *)
(* is the number of such steps left before the next packet.                *)
(***************************************************************************)
HiddenBefore(plan, k) == IF k <= Len(plan) THEN plan[k] ELSE 0

NewContext(la, plan) ==
    [is_flushing |-> FALSE, frame_count |-> 0, frames_processed |-> 0,
     lookahead |-> la, hidden_plan |-> plan, hidden |-> HiddenBefore(plan, 1)]

\* The plans the library is run with: no step without output; MaxHidden
\* such steps between the first packet and the second (what rav1e does on
\* three frames); MaxHidden such steps before every packet.
HiddenPlans == {<<>>, <<0, MaxHidden>>, [k \in 1..MaxFrames |-> MaxHidden]}

ContextSendFrame(c) ==
    IF c.is_flushing
    THEN [status |-> "EnoughData", ctx |-> c]
    ELSE [status |-> "Ok", ctx |-> [c EXCEPT !.frame_count = @ + 1]]

ContextFlush(c) == [c EXCEPT !.is_flushing = TRUE]

ContextReceivePacket(c) ==
    IF c.is_flushing /\ c.frames_processed = c.frame_count
    THEN [status |-> "LimitReached", ctx |-> c, packet |-> None]
    ELSE IF ~c.is_flushing /\ c.frame_count - c.frames_processed <= c.lookahead
    THEN [status |-> "NeedMoreData", ctx |-> c, packet |-> None]
    ELSE IF c.hidden > 0
    THEN [status |-> "Encoded", ctx |-> [c EXCEPT !.hidden = @ - 1], packet |-> None]
    ELSE [status |-> "Ok",
          ctx |-> [c EXCEPT !.frames_processed = @ + 1,
                            !.hidden = HiddenBefore(c.hidden_plan, c.frames_processed + 2)],
          packet |-> Some(c.frames_processed + 1)]

(***************************************************************************)
(* Av1Encoder's VideoEncoder implementation.  Each operator returns the    *)
(* call's result, the context after it and the context's last status.      *)
(***************************************************************************)
FrameDimsMatch(e, f) == f.width = e.width /\ f.height = e.height

FrameFormatAnyYuv(f) == f.format \in {"Yuv420p", "Yuv422p", "Yuv444p"}

FrameFormatOk(f) == f.format = "Yuv420p"

SendFrameSome(e, c, f) ==
    IF ~FrameDimsMatch(e, f)
    THEN [res |-> Err("InvalidInput"), ctx |-> c, status |-> "none"]
    ELSE IF ~FrameFormatOk(f)
    THEN [res |-> Err("InvalidInput"), ctx |-> c, status |-> "none"]
    ELSE LET r == ContextSendFrame(c)
         IN IF r.status = "Ok"
            THEN [res |-> Ok(<<>>), ctx |-> r.ctx, status |-> r.status]
            ELSE [res |-> Err("Codec"), ctx |-> r.ctx, status |-> r.status]

SendFrameNone(c) ==
    [res |-> Ok(<<>>), ctx |-> ContextFlush(c), status |-> "Ok"]

ReceiveStatusResultEncodedIsNone(r) ==
    CASE r.status = "Ok" -> Ok(r.packet)
      [] r.status = "Encoded" -> Ok(None)
      [] r.status = "NeedMoreData" -> Ok(None)
      [] r.status = "LimitReached" -> Ok(None)
      [] OTHER -> Err("Codec")

ReceivePacketNoRetry(c) ==
    LET r == ContextReceivePacket(c)
    IN [res |-> ReceiveStatusResultEncodedIsNone(r), ctx |-> r.ctx, status |-> r.status]

ReceiveStatusResult(r) ==
    CASE r.status = "Ok" -> Ok(r.packet)
      [] r.status = "NeedMoreData" -> Ok(None)
      [] r.status = "LimitReached" -> Ok(None)
      [] OTHER -> Err("Codec")

RECURSIVE ReceivePacket(_)
ReceivePacket(c) ==
    LET r == ContextReceivePacket(c)
    IN IF r.status = "Encoded"
       THEN ReceivePacket(r.ctx)
       ELSE [res |-> ReceiveStatusResult(r), ctx |-> r.ctx, status |-> r.status]

RECURSIVE FinishLoop(_, _)
FinishLoop(c, packets) ==
    LET r == ReceivePacket(c)
    IN IF r.res.tag = "Err"
       THEN [res |-> r.res, ctx |-> r.ctx, status |-> r.status]
       ELSE IF r.res.val = None
       THEN [res |-> Ok(packets), ctx |-> r.ctx, status |-> r.status]
       ELSE FinishLoop(r.ctx, packets \o r.res.val)

Finish(c) ==
    LET s == SendFrameNone(c)
    IN IF s.res.tag = "Err"
       THEN s
       ELSE FinishLoop(s.ctx, <<>>)

\* Av1Encoder::flush: context.flush(), then every packet the context gives
\* until LimitReached; Encoded is retried, any other status is a codec error.
RECURSIVE FlushLoop(_, _)
FlushLoop(c, packets) ==
    LET r == ContextReceivePacket(c)
    IN IF r.status = "Ok"
       THEN FlushLoop(r.ctx, packets \o r.packet)
       ELSE IF r.status = "Encoded"
       THEN FlushLoop(r.ctx, packets)
       ELSE IF r.status = "LimitReached"
       THEN [res |-> Ok(packets), ctx |-> r.ctx, status |-> r.status]
       ELSE [res |-> Err("Codec"), ctx |-> r.ctx, status |-> r.status]

Flush(c) == FlushLoop(ContextFlush(c), <<>>)

(***************************************************************************)
(* The encoder's actions.                                                  *)
(***************************************************************************)
Call(op, f, r, c) ==
    [op |-> op, frame |-> f, res |-> r.res, status |-> r.status,
     before |-> c, eosBefore |-> eos, receivedBefore |-> Len(received)]

NoCall ==
    [op |-> "none", frame |-> NoFrame, res |-> Ok(<<>>), status |-> "none",
     before |-> NewContext(0, <<>>), eosBefore |-> FALSE, receivedBefore |-> 0]

EncInit ==
    /\ \E w \in FrameSizes, h \in FrameSizes : enc = [width |-> w, height |-> h]
    /\ \E la \in 0..MaxLookahead, plan \in HiddenPlans : ctx = NewContext(la, plan)
    /\ lastCall = NoCall
    /\ received = <<>>
    /\ eos = FALSE
    /\ finished = FALSE

EncIdle ==
    /\ enc = [width |-> 64, height |-> 64]
    /\ ctx = NewContext(0, <<>>)
    /\ lastCall = NoCall
    /\ received = <<>>
    /\ eos = FALSE
    /\ finished = FALSE

EncSendFrame ==
    \E f \in Frames :
        LET r == SendFrameSome(enc, ctx, f)
        IN /\ r.ctx.frame_count <= MaxFrames
           /\ ctx' = r.ctx
           /\ lastCall' = Call("send_frame", f, r, ctx)
           /\ UNCHANGED <<enc, received, eos, finished>>

EncSendEos ==
    LET r == SendFrameNone(ctx)
    IN /\ ctx' = r.ctx
       /\ lastCall' = Call("send_eos", NoFrame, r, ctx)
       /\ eos' = TRUE
       /\ UNCHANGED <<enc, received, finished>>

EncReceivePacket ==
    LET r == ReceivePacket(ctx)
    IN /\ ctx' = r.ctx
       /\ lastCall' = Call("receive_packet", NoFrame, r, ctx)
       /\ received' = IF r.res.tag = "Ok" THEN received \o r.res.val ELSE received
       /\ UNCHANGED <<enc, eos, finished>>

EncFinish ==
    LET r == Finish(ctx)
    IN /\ ctx' = r.ctx
       /\ lastCall' = Call("finish", NoFrame, r, ctx)
       /\ received' = IF r.res.tag = "Ok" THEN received \o r.res.val ELSE received
       /\ eos' = TRUE
       /\ finished' = (finished \/ r.res.tag = "Ok")
       /\ UNCHANGED enc

\* flush() is not send_frame(None): eos and finished stay as they are.
EncFlush ==
    LET r == Flush(ctx)
    IN /\ ctx' = r.ctx
       /\ lastCall' = Call("flush", NoFrame, r, ctx)
       /\ received' = IF r.res.tag = "Ok" THEN received \o r.res.val ELSE received
       /\ UNCHANGED <<enc, eos, finished>>

TilesIdle ==
    /\ tileIn = [width |-> 0, height |-> 0, threads |-> 0]
    /\ tileOut = <<0, 0>>

IvfNoCall ==
    [op |-> "none", res |-> Ok(<<>>), stream_index |-> 0, sinkBefore |-> <<>>,
     countBefore |-> 0, frame |-> <<>>]

IvfIdle ==
    /\ mux = [state |-> "none", frame_count |-> 0, width |-> 0, height |-> 0,
              header |-> <<>>]
    /\ sink = <<>>
    /\ written = <<>>
    /\ ivfLast = IvfNoCall
    /\ rejected = FALSE
    /\ writer = [limit |-> None, heals |-> FALSE, failed |-> FALSE]
    /\ ivfArgs = <<0, 0, 0, 0>>

Mp4NoFile ==
    [len_known |-> FALSE, parse_ok |-> FALSE, ids |-> {}, type |-> <<>>,
     count |-> <<>>, bad |-> <<>>, order |-> <<>>, timescale |-> 0,
     duration_ms |-> 0]

Mp4NoMetadata == [duration_ms |-> <<>>, stream_count |-> 0, format |-> ""]

Mp4NoCall ==
    [op |-> "none", arg |-> 0, res |-> Ok(<<>>), trackBefore |-> <<>>,
     sampleBefore |-> 0]

Mp4NoRun == [track |-> <<>>, reads |-> 0, failed |-> FALSE]

Mp4Idle ==
    /\ mp4File = Mp4NoFile
    /\ dmx = [state |-> "none", current_track |-> <<>>, current_sample |-> 0,
              metadata |-> Mp4NoMetadata]
    /\ mp4Last = Mp4NoCall
    /\ mp4Run = Mp4NoRun
    /\ mp4Ended = <<>>
    /\ srcReads = 0

Y4mNoFile ==
    [well_formed |-> FALSE, tag |-> "", width |-> 0, height |-> 0,
     frames |-> 0, bad |-> 0, pixel |-> 0]

Y4mNoDemuxer ==
    [state |-> "none", width |-> 0, height |-> 0, pixel_format |-> "none",
     frame_count |-> 0, pos |-> 0]

Y4mNoCall == [op |-> "none", res |-> Ok(<<>>), countBefore |-> 0, posBefore |-> 0]

Y4mIdle ==
    /\ y4mFile = Y4mNoFile
    /\ y4m = Y4mNoDemuxer
    /\ y4mLast = Y4mNoCall

FrameNoArgs ==
    [width |-> 0, height |-> 0, format |-> "none", ctor |-> "none",
     pwidth |-> 0, pheight |-> 0, stride |-> 0, len |-> 0]

FrameUnbuilt == [width |-> 0, height |-> 0, format |-> "none", planes |-> <<>>, pts |-> None]

PlaneUnbuilt == [data |-> <<>>, stride |-> 0, width |-> 0, height |-> 0]

FrameNoCall == [op |-> "none", y |-> 0, res |-> Ok(<<>>), before |-> <<>>]

FrameIdle ==
    /\ frameArgs = FrameNoArgs
    /\ frame = FrameUnbuilt
    /\ plane = PlaneUnbuilt
    /\ frameLast = FrameNoCall
    /\ frameWrites = 0

SvtNoConfig ==
    [preset |-> 0, width |-> 0, height |-> 0, qp |-> 0, bit_depth |-> 0,
     init_handle_ok |-> FALSE, set_parameter_ok |-> FALSE, enc_init_ok |-> FALSE]

SvtUnbuilt == [state |-> "unbuilt", width |-> 0, height |-> 0, frame_count |-> 0]

SvtLibNone ==
    [handle |-> "none", acquired |-> 0, released |-> 0, misuse |-> FALSE,
     submitted |-> 0, encoded |-> 0, delivered |-> 0, eos_sent |-> FALSE,
     eos_delivered |-> FALSE]

SvtNoCall == [op |-> "none", frame |-> NoFrame, res |-> Ok(<<>>), eosBefore |-> FALSE]

SvtIdle ==
    /\ svtCfg = SvtNoConfig
    /\ svt = [SvtUnbuilt EXCEPT !.state = "none"]
    /\ svtLib = SvtLibNone
    /\ svtLast = SvtNoCall
    /\ svtOut = <<>>

CfgUnresolved == [threads |-> 0, tile_cols |-> 0, tile_rows |-> 0]

CfgIdle ==
    /\ cfgIn = [width |-> 0, height |-> 0, tile_cols |-> 0, tile_rows |-> 0,
                threads |-> 0, cores |-> 0]
    /\ cfgOut = CfgUnresolved

PipeIdle ==
    /\ pipe = [pc |-> "none", frames_left |-> 0, frame_count |-> 0, format |-> "none"]
    /\ pipeOut = <<>>

Init == EncInit /\ TilesIdle /\ IvfIdle /\ Mp4Idle /\ Y4mIdle /\ FrameIdle /\ SvtIdle /\ CfgIdle /\ PipeIdle

Next ==
    \/ EncSendFrame /\ UNCHANGED tileVars /\ UNCHANGED ivfVars /\ UNCHANGED mp4Vars /\ UNCHANGED y4mVars /\ UNCHANGED frameVars /\ UNCHANGED svtVars /\ UNCHANGED cfgVars /\ UNCHANGED pipeVars
    \/ EncSendEos /\ UNCHANGED tileVars /\ UNCHANGED ivfVars /\ UNCHANGED mp4Vars /\ UNCHANGED y4mVars /\ UNCHANGED frameVars /\ UNCHANGED svtVars /\ UNCHANGED cfgVars /\ UNCHANGED pipeVars
    \/ EncReceivePacket /\ UNCHANGED tileVars /\ UNCHANGED ivfVars /\ UNCHANGED mp4Vars /\ UNCHANGED y4mVars /\ UNCHANGED frameVars /\ UNCHANGED svtVars /\ UNCHANGED cfgVars /\ UNCHANGED pipeVars
    \/ EncFinish /\ UNCHANGED tileVars /\ UNCHANGED ivfVars /\ UNCHANGED mp4Vars /\ UNCHANGED y4mVars /\ UNCHANGED frameVars /\ UNCHANGED svtVars /\ UNCHANGED cfgVars /\ UNCHANGED pipeVars
    \/ EncFlush /\ UNCHANGED tileVars /\ UNCHANGED ivfVars /\ UNCHANGED mp4Vars /\ UNCHANGED y4mVars /\ UNCHANGED frameVars /\ UNCHANGED svtVars /\ UNCHANGED cfgVars /\ UNCHANGED pipeVars

Spec == Init /\ [][Next]_vars

(***************************************************************************)
(* Claims about the encoder state machine (specification Spec).            *)
(***************************************************************************)
ValidFrame(f) == f.width = enc.width /\ f.height = enc.height /\ f.format = "Yuv420p"

\* C1: after send_frame(None), every later send_frame(Some(frame)) fails with
\* Error::InvalidInput and the frame is not submitted to the encoder.
C1_FrameAfterEosIsInvalidInput ==
    (lastCall.op = "send_frame" /\ lastCall.eosBefore) =>
        /\ lastCall.res = Err("InvalidInput")
        /\ ctx.frame_count = lastCall.before.frame_count

\* C2: the value receive_packet returns while the encoder is still buffering
\* (not ready yet) is never the value it returns once draining is complete.
C2_NotReadyDiffersFromTerminal ==
    (lastCall.op = "receive_packet" /\ lastCall.status = "NeedMoreData") =>
        lastCall.res # ReceiveStatusResult([status |-> "LimitReached", packet |-> None])

\* C3: finish() signals end-of-stream and returns, in emission order, exactly
\* the packets not yet handed out for the frames submitted before the call
\* (a non-empty list when a frame was accepted and nothing was received
\* before); after it has returned, receive_packet yields no further packet.
C3_FinishDrainsAll ==
    /\ lastCall.op = "finish" =>
            /\ lastCall.res.tag = "Ok"
            /\ ctx.is_flushing
            /\ lastCall.res.val =
                   [i \in 1..(lastCall.before.frame_count - lastCall.receivedBefore)
                      |-> lastCall.receivedBefore + i]
            /\ (lastCall.before.frame_count >= 1 /\ lastCall.receivedBefore = 0)
                   => lastCall.res.val # <<>>
            /\ received = [i \in 1..lastCall.before.frame_count |-> i]
    /\ finished => ReceivePacket(ctx).res = Ok(None)
    /\ (finished /\ lastCall.op = "receive_packet") => lastCall.res = Ok(None)

C3_Witness ==
    /\ lastCall.op = "finish"
    /\ lastCall.receivedBefore = 1
    /\ Len(lastCall.res.val) = 2
    /\ ctx.hidden_plan = <<0, MaxHidden>>
    /\ ctx.lookahead = MaxFrames

\* C4: in the Open state (no end-of-stream signalled to the context, by
\* send_frame(None), finish or flush) a frame whose width/height differ from
\* the encoder's or whose format is not Yuv420p is rejected with
\* Error::InvalidInput, nothing reaches the underlying encoder, and a
\* following valid frame is accepted exactly as if the rejected call had not
\* happened.
C4_OpenRejectsMismatchedFrame ==
    (/\ lastCall.op = "send_frame"
     /\ ~lastCall.before.is_flushing
     /\ ~ValidFrame(lastCall.frame)) =>
        /\ lastCall.res = Err("InvalidInput")
        /\ ctx = lastCall.before
        /\ \A g \in Frames : ValidFrame(g) =>
               /\ SendFrameSome(enc, ctx, g) = SendFrameSome(enc, lastCall.before, g)
               /\ SendFrameSome(enc, ctx, g).res = Ok(<<>>)

C4_Witness ==
    /\ lastCall.op = "send_frame"
    /\ ~lastCall.before.is_flushing
    /\ lastCall.frame.width = enc.width
    /\ lastCall.frame.height = enc.height
    /\ lastCall.frame.format = "Yuv422p"
    /\ lastCall.before.frame_count >= 1
    /\ lastCall.res = Err("InvalidInput")

(***************************************************************************)
(* Av1Config::calculate_tiles.                                             *)
(***************************************************************************)
\* usize::next_power_of_two: the smallest power of two >= n (1 for n = 0).
RECURSIVE PowerOfTwoFrom(_, _)
PowerOfTwoFrom(p, n) == IF p >= n THEN p ELSE PowerOfTwoFrom(2 * p, n)

NextPowerOfTwo(n) == PowerOfTwoFrom(1, n)

Max(a, b) == IF a >= b THEN a ELSE b

MaxTileCols(width) == Max(NextPowerOfTwo(width \div 256), 1)

MaxTileRows(height) == Max(NextPowerOfTwo(height \div 256), 1)

TargetTiles(threads) == Max(threads * 2, 4)

\* The candidates of both loops, in loop order.
TileCounts == <<1, 2, 4, 8>>

\* best_diff starts at usize::MAX; any value above every reachable diff acts alike.
UsizeMax == 2147483647

TileFitsAlways(cols, rows, maxCols, maxRows) == TRUE

\* The negation of the loop's `continue` condition.
TileFits(cols, rows, maxCols, maxRows) == ~(cols > maxCols \/ rows > maxRows)

TileDiff(total, target) == IF total > target THEN total - target ELSE target - total

TileStepLast(best, cols, rows, maxCols, maxRows, target) ==
    IF ~TileFits(cols, rows, maxCols, maxRows)
    THEN best
    ELSE LET diff == TileDiff(cols * rows, target)
         IN IF diff <= best.diff
            THEN [diff |-> diff, cols |-> cols, rows |-> rows]
            ELSE best

\* One iteration of the inner loop body.
TileStep(best, cols, rows, maxCols, maxRows, target) ==
    IF ~TileFits(cols, rows, maxCols, maxRows)
    THEN best
    ELSE LET diff == TileDiff(cols * rows, target)
         IN IF diff < best.diff
            THEN [diff |-> diff, cols |-> cols, rows |-> rows]
            ELSE best

\* The two nested loops: k = 0..15 enumerates cols (outer) then rows (inner).
RECURSIVE TileLoop(_, _, _, _, _)
TileLoop(k, best, maxCols, maxRows, target) ==
    IF k = Len(TileCounts) * Len(TileCounts)
    THEN best
    ELSE TileLoop(k + 1,
                  TileStep(best,
                           TileCounts[(k \div Len(TileCounts)) + 1],
                           TileCounts[(k % Len(TileCounts)) + 1],
                           maxCols, maxRows, target),
                  maxCols, maxRows, target)

calculate_tiles(width, height, threads) ==
    LET best == TileLoop(0, [diff |-> UsizeMax, cols |-> 1, rows |-> 1],
                         MaxTileCols(width), MaxTileRows(height),
                         TargetTiles(threads))
    IN <<best.cols, best.rows>>

\* Frame sizes drawn for calculate_tiles: a grid, the sizes around the
\* 256-pixel tile boundaries and the resolutions of the repository's tests.
TileSizes ==
    {128 * k : k \in 0..MaxDimSteps}
        \cup {64, 255, 257, 480, 511, 640, 767, 1080, 1920, 2160, 3840}

TilesInit ==
    /\ \E w \in TileSizes, h \in TileSizes, t \in 0..MaxThreads :
           tileIn = [width |-> w, height |-> h, threads |-> t]
    /\ tileOut = <<0, 0>>

TilesCalculate ==
    /\ tileOut = <<0, 0>>
    /\ tileOut' = calculate_tiles(tileIn.width, tileIn.height, tileIn.threads)
    /\ UNCHANGED tileIn

InitTiles == EncIdle /\ TilesInit /\ IvfIdle /\ Mp4Idle /\ Y4mIdle /\ FrameIdle /\ SvtIdle /\ CfgIdle /\ PipeIdle

NextTiles == TilesCalculate /\ UNCHANGED encVars /\ UNCHANGED ivfVars /\ UNCHANGED mp4Vars /\ UNCHANGED y4mVars /\ UNCHANGED frameVars /\ UNCHANGED svtVars /\ UNCHANGED cfgVars /\ UNCHANGED pipeVars

SpecTiles == InitTiles /\ [][NextTiles]_vars

(***************************************************************************)
(* Claims about calculate_tiles (specification SpecTiles).                 *)
(***************************************************************************)
TilesDone == tileOut # <<0, 0>>

\* The largest power of two <= n, for n >= 1.
RECURSIVE LargestPowerOfTwoLe(_)
LargestPowerOfTwoLe(n) == IF n <= 1 THEN 1 ELSE 2 * LargestPowerOfTwoLe(n \div 2)

\* C5: cols <= max(1, largest power of two <= floor(W/256)) and the same for
\* rows and H, so a tile is at least 256 pixels wide when cols > 1 and at
\* least 256 pixels high when rows > 1.
C5_TilesAtLeast256 ==
    TilesDone =>
        /\ tileOut[1] <= Max(1, LargestPowerOfTwoLe(tileIn.width \div 256))
        /\ tileOut[2] <= Max(1, LargestPowerOfTwoLe(tileIn.height \div 256))
        /\ tileOut[1] > 1 => tileOut[1] * 256 <= tileIn.width
        /\ tileOut[2] > 1 => tileOut[2] * 256 <= tileIn.height

\* The pairs that survive the bounds the function computes from W and H.
TileSurvivors(w, h) ==
    {p \in {1, 2, 4, 8} \X {1, 2, 4, 8} :
        p[1] <= MaxTileCols(w) /\ p[2] <= MaxTileRows(h)}

Dist(p, target) ==
    IF p[1] * p[2] >= target THEN p[1] * p[2] - target ELSE target - p[1] * p[2]

\* p comes before q in the scan: cols outer ascending, rows inner ascending.
ScanBefore(p, q) == p[1] < q[1] \/ (p[1] = q[1] /\ p[2] < q[2])

\* C6: the result is a surviving pair of {1,2,4,8} x {1,2,4,8} whose product
\* is at minimal distance from max(2*T, 4), and of the pairs at that minimal
\* distance it is the first in scan order (cols outer, rows inner, ascending).
C6_ClosestFirstInScan ==
    TilesDone =>
        LET s == TileSurvivors(tileIn.width, tileIn.height)
            target == IF 2 * tileIn.threads >= 4 THEN 2 * tileIn.threads ELSE 4
        IN /\ tileOut \in s
           /\ \A q \in s : Dist(tileOut, target) <= Dist(q, target)
           /\ \A q \in s : Dist(q, target) = Dist(tileOut, target) =>
                  (q = tileOut \/ ScanBefore(tileOut, q))

C6_Witness ==
    /\ TilesDone
    /\ tileIn.width = 1920 /\ tileIn.height = 1080 /\ tileIn.threads = 8
    /\ tileOut = <<4, 4>>
    /\ \E q \in TileSurvivors(1920, 1080) : q # tileOut /\ Dist(q, 16) = 0

\* C7: cols and rows are each in {1,2,4,8}; the result is (1,1) for every T
\* when W < 256 and H < 256; and 640x480 with T=4 gives 1 <= cols*rows <= 8,
\* 1920x1080 with T=8 gives 4 <= cols*rows <= 32, 3840x2160 with T=16 gives
\* 8 <= cols*rows <= 64.
C7_TileRanges ==
    TilesDone =>
        LET n == tileOut[1] * tileOut[2]
            at(w, h, t) == tileIn = [width |-> w, height |-> h, threads |-> t]
        IN /\ tileOut[1] \in {1, 2, 4, 8}
           /\ tileOut[2] \in {1, 2, 4, 8}
           /\ (tileIn.width < 256 /\ tileIn.height < 256) => tileOut = <<1, 1>>
           /\ at(640, 480, 4) => (1 <= n /\ n <= 8)
           /\ at(1920, 1080, 8) => (4 <= n /\ n <= 32)
           /\ at(3840, 2160, 16) => (8 <= n /\ n <= 64)

C7_Witness ==
    /\ TilesDone
    /\ tileIn = [width |-> 64, height |-> 64, threads |-> 16]
    /\ tileOut = <<1, 1>>

(***************************************************************************)
(* Little-endian encodings (to_le_bytes).                                  *)
(***************************************************************************)
U16Le(v) == <<v % 256, (v \div 256) % 256>>

U32Le(v) ==
    <<v % 256, (v \div 256) % 256, (v \div 65536) % 256, (v \div 16777216) % 256>>

\* (v as u64).to_le_bytes() for an i64 v of 32-bit magnitude: the low four
\* bytes of the two's complement, then the sign extension.
I64AsU64Le(v) ==
    LET ext == IF v < 0 THEN 255 ELSE 0
    IN <<v % 256, (v \div 256) % 256, (v \div 65536) % 256, (v \div 16777216) % 256,
         ext, ext, ext, ext>>

(***************************************************************************)
(* IvfHeader, IvfFrameHeader and IvfMuxer.                                 *)
(***************************************************************************)
IvfHeaderNew(width, height, fps_num, fps_den) ==
    [signature |-> <<68, 75, 73, 70>>,
     version |-> 0,
     header_size |-> 32,
     fourcc |-> <<65, 86, 48, 49>>,
     width |-> width,
     height |-> height,
     timebase_den |-> fps_den,
     timebase_num |-> fps_num,
     frame_count |-> 0,
     unused |-> 0]

IvfHeaderWriteNumFirst(h) ==
    h.signature \o U16Le(h.version) \o U16Le(h.header_size) \o h.fourcc
        \o U16Le(h.width) \o U16Le(h.height)
        \o U32Le(h.timebase_num) \o U32Le(h.timebase_den)
        \o U32Le(h.frame_count) \o U32Le(h.unused)

IvfHeaderWrite(h) ==
    h.signature \o U16Le(h.version) \o U16Le(h.header_size) \o h.fourcc
        \o U16Le(h.width) \o U16Le(h.height)
        \o U32Le(h.timebase_den) \o U32Le(h.timebase_num)
        \o U32Le(h.frame_count) \o U32Le(h.unused)

IvfFrameHeaderWriteTimestampFirst(fh) == I64AsU64Le(fh.timestamp) \o U32Le(fh.frame_size)

IvfFrameHeaderWrite(fh) == U32Le(fh.frame_size) \o I64AsU64Le(fh.timestamp)

\* writer.write_all(bytes) on a writer wr that holds snk.  wr.limit is None
\* for a writer that takes every byte (Vec<u8>, Cursor<Vec<u8>>) and Some(n)
\* for one with room for n bytes in all: a write_all that does not fit writes
\* the bytes that fit and returns an error; an empty write_all returns Ok.  A
\* fixed buffer (Cursor<&mut [u8]>) stays full; a writer with heals set fails
\* that one write and takes every byte afterwards.
WriteAll(snk, wr, bytes) ==
    LET room == IF wr.limit = None THEN Len(bytes)
                ELSE Max(wr.limit[1] - Len(snk), 0)
    IN IF Len(bytes) <= room
       THEN [ok |-> TRUE, sink |-> snk \o bytes, writer |-> wr]
       ELSE [ok |-> FALSE, sink |-> snk \o SubSeq(bytes, 1, room),
             writer |-> [wr EXCEPT !.failed = TRUE,
                                   !.limit = IF wr.heals THEN None ELSE @]]

\* IvfMuxer::new on an empty writer: when header.write fails no muxer exists.
IvfMuxerNew(wr, width, height, fps_num, fps_den) ==
    LET header == IvfHeaderNew(width, height, fps_num, fps_den)
        w == WriteAll(<<>>, wr, IvfHeaderWrite(header))
    IN IF ~w.ok
       THEN [res |-> Err("Io"),
             mux |-> [state |-> "none", frame_count |-> 0, width |-> 0,
                      height |-> 0, header |-> <<>>],
             sink |-> w.sink, writer |-> w.writer]
       ELSE [res |-> Ok(<<>>),
             mux |-> [state |-> "open", frame_count |-> 0, width |-> width,
                      height |-> height, header |-> header],
             sink |-> w.sink, writer |-> w.writer]

UnwrapOr(opt, default) == IF opt = None THEN default ELSE opt[1]

PacketTimestampAfterIncrement(m, packet) == UnwrapOr(packet.pts, m.frame_count + 1)

PacketTimestamp(m, packet) == UnwrapOr(packet.pts, m.frame_count)

\* The bytes write_packet hands to the writer for a packet of stream 0.
FrameBytes(m, packet) ==
    IvfFrameHeaderWrite([frame_size |-> Len(packet.data),
                         timestamp |-> PacketTimestamp(m, packet)]) \o packet.data

\* write_packet past the stream check: the frame header, the payload, then
\* the count.  A failed write_all returns Error::Io at once: the bytes it
\* wrote stay in the writer and frame_count is not incremented.
WritePacketAnyStream(m, snk, wr, packet) ==
    LET timestamp == PacketTimestamp(m, packet)
        frame_header == [frame_size |-> Len(packet.data), timestamp |-> timestamp]
        h == WriteAll(snk, wr, IvfFrameHeaderWrite(frame_header))
        d == WriteAll(h.sink, h.writer, packet.data)
    IN IF ~h.ok
       THEN [res |-> Err("Io"), mux |-> m, sink |-> h.sink, writer |-> h.writer,
             timestamp |-> timestamp]
       ELSE IF ~d.ok
       THEN [res |-> Err("Io"), mux |-> m, sink |-> d.sink, writer |-> d.writer,
             timestamp |-> timestamp]
       ELSE [res |-> Ok(<<>>),
             mux |-> [m EXCEPT !.frame_count = @ + 1],
             sink |-> d.sink, writer |-> d.writer,
             timestamp |-> timestamp]

WritePacketCountsFirst(m, snk, wr, packet) ==
    IF packet.stream_index # 0
    THEN [res |-> Err("InvalidInput"), mux |-> [m EXCEPT !.frame_count = @ + 1],
          sink |-> snk, writer |-> wr, timestamp |-> 0]
    ELSE [WritePacketAnyStream(m, snk, wr, packet)
              EXCEPT !.mux = [m EXCEPT !.frame_count = @ + 1]]

WritePacket(m, snk, wr, packet) ==
    IF packet.stream_index # 0
    THEN [res |-> Err("InvalidInput"), mux |-> m, sink |-> snk, writer |-> wr,
          timestamp |-> 0]
    ELSE LET timestamp == PacketTimestamp(m, packet)
             frame_header == [frame_size |-> Len(packet.data), timestamp |-> timestamp]
             h == WriteAll(snk, wr, IvfFrameHeaderWrite(frame_header))
             d == WriteAll(h.sink, h.writer, packet.data)
         IN IF ~h.ok
            THEN [res |-> Err("Io"), mux |-> m, sink |-> h.sink,
                  writer |-> h.writer, timestamp |-> timestamp]
            ELSE IF ~d.ok
            THEN [res |-> Err("Io"), mux |-> m, sink |-> d.sink,
                  writer |-> d.writer, timestamp |-> timestamp]
            ELSE [res |-> Ok(<<>>),
                  mux |-> [m EXCEPT !.frame_count = @ + 1],
                  sink |-> d.sink, writer |-> d.writer,
                  timestamp |-> timestamp]

\* write_packet borrows the muxer and finalize(self) takes it by value: both
\* can be called only on a muxer that has not been moved into finalize.
MuxerOwnedAfterFinalize(m) == m.state \in {"open", "finalized"}

MuxerOwned(m) == m.state = "open"

\* finalize(mut self) flushes the writer: the bytes of the sink stay as they
\* are, the muxer is consumed, and a failed flush is returned as Error::Io.
Finalize(m, snk, flushed) ==
    [res |-> IF flushed THEN Ok(<<>>) ELSE Err("Io"),
     mux |-> [m EXCEPT !.state = "finalized"], sink |-> snk]

(***************************************************************************)
(* The muxer's actions.  The writer is an in-memory one: a growing        *)
(* Cursor<Vec<u8>> as in the repository's tests, whose writes do not fail, *)
(* or a fixed buffer, whose writes fail once it is full.                   *)
(***************************************************************************)
IvfConfigs == {<<1920, 1080, 30, 1>>, <<640, 480, 24, 1>>, <<65535, 258, 30000, 1001>>}

Payloads == {<<>>, <<7>>, <<255, 0, 9>>}

PtsValues == {None, Some(-2), Some(1000)}

Packets ==
    [stream_index : {0, 1}, data : Payloads, pts : PtsValues, dts : {None},
     is_keyframe : BOOLEAN]

\* The writers given to IvfMuxer::new: one that takes every byte, fixed
\* buffers of 20 and of 58 bytes, and one that fails the write reaching its
\* 46th byte and takes every byte afterwards.
Writers ==
    {[limit |-> None, heals |-> FALSE, failed |-> FALSE],
     [limit |-> Some(20), heals |-> FALSE, failed |-> FALSE],
     [limit |-> Some(58), heals |-> FALSE, failed |-> FALSE],
     [limit |-> Some(46), heals |-> TRUE, failed |-> FALSE]}

\* Every configuration is run on the writer that takes every byte, and one
\* of them on each writer.
IvfSetups ==
    {<<cfg, wr>> \in IvfConfigs \X Writers :
        wr.limit = None \/ cfg = <<640, 480, 24, 1>>}

IvfInit ==
    /\ \E setup \in IvfSetups :
           LET cfg == setup[1]
               wr == setup[2]
               r == IvfMuxerNew(wr, cfg[1], cfg[2], cfg[3], cfg[4])
           IN /\ mux = r.mux
              /\ sink = r.sink
              /\ writer = r.writer
              /\ ivfArgs = cfg
              /\ ivfLast = [IvfNoCall EXCEPT !.op = "new", !.res = r.res]
    /\ written = <<>>
    /\ rejected = FALSE

\* write_packet(&mut self, packet).  written keeps, for each accepted packet,
\* the packet and the length of the sink when the call began.
IvfWritePacket ==
    /\ MuxerOwned(mux)
    /\ UNCHANGED ivfArgs
    /\ mux.frame_count < MaxPackets
    /\ \E packet \in Packets :
           LET r == WritePacket(mux, sink, writer, packet)
           IN /\ mux' = r.mux
              /\ sink' = r.sink
              /\ writer' = r.writer
              /\ written' = IF r.res.tag = "Ok"
                            THEN Append(written, [data |-> packet.data,
                                                  pts |-> packet.pts,
                                                  timestamp |-> r.timestamp,
                                                  at |-> Len(sink)])
                            ELSE written
              /\ rejected' = (rejected \/ r.res = Err("InvalidInput"))
              /\ ivfLast' = [op |-> "write_packet", res |-> r.res,
                             stream_index |-> packet.stream_index,
                             sinkBefore |-> sink, countBefore |-> mux.frame_count,
                             frame |-> FrameBytes(mux, packet)]

IvfFinalize ==
    /\ MuxerOwned(mux)
    /\ \E flushed \in BOOLEAN :
           LET r == Finalize(mux, sink, flushed)
           IN /\ mux' = r.mux
              /\ sink' = r.sink
              /\ ivfLast' = [op |-> "finalize", res |-> r.res, stream_index |-> 0,
                             sinkBefore |-> sink, countBefore |-> mux.frame_count,
                             frame |-> <<>>]
              /\ UNCHANGED <<written, rejected, writer, ivfArgs>>

InitIvf == EncIdle /\ TilesIdle /\ IvfInit /\ Mp4Idle /\ Y4mIdle /\ FrameIdle /\ SvtIdle /\ CfgIdle /\ PipeIdle

NextIvf ==
    \/ IvfWritePacket /\ UNCHANGED encVars /\ UNCHANGED tileVars /\ UNCHANGED mp4Vars /\ UNCHANGED y4mVars /\ UNCHANGED frameVars /\ UNCHANGED svtVars /\ UNCHANGED cfgVars /\ UNCHANGED pipeVars
    \/ IvfFinalize /\ UNCHANGED encVars /\ UNCHANGED tileVars /\ UNCHANGED mp4Vars /\ UNCHANGED y4mVars /\ UNCHANGED frameVars /\ UNCHANGED svtVars /\ UNCHANGED cfgVars /\ UNCHANGED pipeVars

SpecIvf == InitIvf /\ [][NextIvf]_vars

(***************************************************************************)
(* Claims about the IVF muxer (specification SpecIvf).  The sink is read   *)
(* back with little-endian decoders written independently of the encoders. *)
(***************************************************************************)
\* An unsigned little-endian number from its bytes, high byte first in the sum.
RECURSIVE UnsignedFromLe(_)
UnsignedFromLe(b) ==
    IF b = <<>> THEN 0 ELSE b[1] + 256 * UnsignedFromLe(Tail(b))

\* The i64 whose two's complement is the 8 little-endian bytes b.
I64FromLe(b) ==
    IF b[8] >= 128
    THEN -(UnsignedFromLe([i \in 1..8 |-> 255 - b[i]]) + 1)
    ELSE UnsignedFromLe(b)

Bytes(from, len) == SubSeq(sink, from + 1, from + len)

\* The offset of the frame header of the packet at sequence position i (1-based).
RECURSIVE FrameOffset(_)
FrameOffset(i) ==
    IF i = 1 THEN 32 ELSE FrameOffset(i - 1) + 12 + Len(written[i - 1].data)

SinkHoldsWrittenFrames ==
    /\ Len(sink) = FrameOffset(Len(written) + 1)
    /\ \A i \in 1..Len(written) :
           LET off == FrameOffset(i)
           IN /\ UnsignedFromLe(Bytes(off, 4)) = Len(written[i].data)
              /\ I64FromLe(Bytes(off + 4, 8)) = written[i].timestamp
              /\ Bytes(off + 12, Len(written[i].data)) = written[i].data

\* The frame of each accepted packet stands in the sink where its call began:
\* a 12-byte little-endian frame header (u32 payload length, u64 timestamp),
\* then the payload unchanged.
SinkHoldsFramesWhereWritten ==
    \A i \in 1..Len(written) :
        LET off == written[i].at
        IN /\ off >= FrameOffset(i)
           /\ UnsignedFromLe(Bytes(off, 4)) = Len(written[i].data)
           /\ I64FromLe(Bytes(off + 4, 8)) = written[i].timestamp
           /\ Bytes(off + 12, Len(written[i].data)) = written[i].data

\* C8 (as stated): after new and any sequence of write_packet calls the sink
\* is exactly the 32-byte file header followed, for each accepted packet in
\* write order, by a 12-byte little-endian frame header (u32 payload length,
\* u64 timestamp) and the payload unchanged; the packet at position i starts
\* at 32 + sum over j < i of (12 + len_j).
C8_SinkLayout ==
    mux.state # "none" =>
        /\ Len(written) = mux.frame_count
        /\ SinkHoldsWrittenFrames

\* C8 (amended): while no write on the sink has failed, the sink is exactly
\* the 32-byte file header followed by the frames of the accepted packets in
\* write order, the packet at position i starting at 32 + sum over j < i of
\* (12 + len_j).  A write_packet that returns Error::Io leaves a proper prefix
\* of its frame header and payload appended to the sink and frame_count
\* unchanged; every accepted packet, before or after such a failure, has its
\* frame header and payload unchanged at the offset where its call began,
\* which is at or after 32 + sum over j < i of (12 + len_j).
C8_SinkLayoutWhileWritesSucceed ==
    mux.state # "none" =>
        /\ Len(written) = mux.frame_count
        /\ ~writer.failed => SinkHoldsWrittenFrames
        /\ SinkHoldsFramesWhereWritten
        /\ (ivfLast.op = "write_packet" /\ ivfLast.res = Err("Io")) =>
               /\ writer.failed
               /\ mux.frame_count = ivfLast.countBefore
               /\ \E n \in 0..(Len(ivfLast.frame) - 1) :
                      sink = ivfLast.sinkBefore \o SubSeq(ivfLast.frame, 1, n)

\* A packet accepted after a failed write: it stands one byte past 32 + 13,
\* behind the byte the failed call left.
C8_Witness ==
    /\ writer.failed
    /\ Len(written) = 2
    /\ written[1].data = <<7>>
    /\ written[2].data = <<255, 0, 9>>
    /\ written[2].pts = Some(-2)
    /\ FrameOffset(2) = 45
    /\ written[2].at = 46
    /\ Bytes(46, 4) = <<3, 0, 0, 0>>
    /\ Len(sink) = 46 + 12 + 3

\* C9: the first 32 bytes of the sink are, from IvfMuxer::new on and through
\* every write_packet and finalize: 'DKIF', u16 0, u16 32, 'AV01', u16 width,
\* u16 height, u32 frame-rate denominator, u32 frame-rate numerator, u32
\* frame count 0, u32 reserved 0, all little-endian.
C9_FileHeaderFixed ==
    mux.state # "none" =>
        /\ Len(sink) >= 32
        /\ Bytes(0, 4) = <<68, 75, 73, 70>>
        /\ UnsignedFromLe(Bytes(4, 2)) = 0
        /\ UnsignedFromLe(Bytes(6, 2)) = 32
        /\ Bytes(8, 4) = <<65, 86, 48, 49>>
        /\ \E cfg \in IvfConfigs :
               /\ mux.width = cfg[1] /\ mux.height = cfg[2]
               /\ UnsignedFromLe(Bytes(12, 2)) = cfg[1]
               /\ UnsignedFromLe(Bytes(14, 2)) = cfg[2]
               /\ UnsignedFromLe(Bytes(16, 4)) = cfg[4]
               /\ UnsignedFromLe(Bytes(20, 4)) = cfg[3]
        /\ Bytes(24, 4) = <<0, 0, 0, 0>>
        /\ Bytes(28, 4) = <<0, 0, 0, 0>>

C9_Witness ==
    /\ mux.state = "finalized"
    /\ mux.frame_count = 2
    /\ mux.header.timebase_den = 1001
    /\ Len(sink) > 32

\* C10: write_packet with stream_index # 0 returns Error::InvalidInput, writes
\* no byte and leaves frame_count unchanged; packets with stream_index 0
\* written after such a rejection are laid out as if it had not happened.
C10_NonZeroStreamRejected ==
    /\ (ivfLast.op = "write_packet" /\ ivfLast.stream_index # 0) =>
           /\ ivfLast.res = Err("InvalidInput")
           /\ sink = ivfLast.sinkBefore
           /\ mux.frame_count = ivfLast.countBefore
    /\ (ivfLast.op = "write_packet" /\ ivfLast.stream_index = 0) =>
           ivfLast.res # Err("InvalidInput")
    /\ rejected => /\ Len(written) = mux.frame_count
                   /\ SinkHoldsFramesWhereWritten
                   /\ ~writer.failed => SinkHoldsWrittenFrames

C10_Witness ==
    /\ rejected
    /\ ivfLast.op = "write_packet"
    /\ ivfLast.stream_index = 0
    /\ ivfLast.res = Ok(<<>>)
    /\ Len(written) = 2
    /\ Len(ivfLast.sinkBefore) > 32

\* C11: the timestamp written for an accepted packet is its pts when pts is
\* present (the 8 bytes are the pts in two's complement, the u64 itself for
\* pts >= 0); when pts is absent it is the number of packets written so far,
\* 0 for a first packet, strictly increasing from one pts-less packet to the
\* next.
C11_TimestampPtsOrCounter ==
    mux.state # "none" =>
        /\ \A i \in 1..Len(written) :
               LET ts == I64FromLe(Bytes(written[i].at + 4, 8))
               IN /\ written[i].pts # None => ts = written[i].pts[1]
                  /\ written[i].pts = None => ts = i - 1
        /\ \A i, j \in 1..Len(written) :
               (i < j /\ written[i].pts = None /\ written[j].pts = None) =>
                   I64FromLe(Bytes(written[i].at + 4, 8))
                       < I64FromLe(Bytes(written[j].at + 4, 8))

C11_Witness ==
    /\ Len(written) = 3
    /\ written[1].pts = None
    /\ written[2].pts = Some(1000)
    /\ written[3].pts = None
    /\ I64FromLe(Bytes(written[3].at + 4, 8)) = 2

\* C12: frame_count() is 0 after new and equals the number of write_packet
\* calls that returned Ok (a successful write adds one, a failed one nothing);
\* dimensions() is the (width, height) given to new.
C12_FrameCountCountsOk ==
    mux.state # "none" =>
        /\ ivfLast.op = "new" => mux.frame_count = 0
        /\ mux.frame_count = Len(written)
        /\ (ivfLast.op = "write_packet" /\ ivfLast.res.tag = "Ok") =>
               mux.frame_count = ivfLast.countBefore + 1
        /\ (ivfLast.op = "write_packet" /\ ivfLast.res.tag = "Err") =>
               mux.frame_count = ivfLast.countBefore
        /\ <<mux.width, mux.height>> = <<ivfArgs[1], ivfArgs[2]>>

C12_Witness ==
    /\ rejected
    /\ mux.frame_count = 2
    /\ ivfLast.op = "write_packet"
    /\ ivfLast.res.tag = "Err"
    /\ <<mux.width, mux.height>> = <<640, 480>>

\* C13: the muxer's events are new, then zero or more write_packet, then at
\* most one finalize: no call on the muxer follows finalize, and the finalize
\* step leaves the bytes of the sink as they are.
C13_FinalizeIsLast ==
    [][/\ mux.state = "open"
       /\ mux'.state = "finalized" => sink' = sink]_vars

C13_Witness ==
    /\ mux.state = "finalized"
    /\ ivfLast.op = "finalize"
    /\ Len(written) = 2
    /\ rejected
    /\ sink = ivfLast.sinkBefore

(***************************************************************************)
(* The MP4 demuxer.  The mp4 reader is the environment: a source has a     *)
(* known length or not, its header parses or not, and a parsed header      *)
(* gives a movie timescale, a duration and a HashMap of tracks.  order is  *)
(* the order in which that HashMap's iterator yields the track ids: it is  *)
(* fixed for one opened file and differs from one run to the next.  Track  *)
(* id has count[id] samples; bad, when not empty, is the <<id, k>> of a    *)
(* sample whose bytes cannot be read.                                      *)
(***************************************************************************)
TrackTypes == {"video", "audio", "subtitle"}
TrackIdSets == {{}, {1}, {1, 2}, {2, 3}}
Timescales == {0, 600, 1000, 90000}
Durations == {0, 1500, 10000}

RECURSIVE Orders(_)
Orders(S) ==
    IF S = {} THEN {<<>>}
    ELSE UNION {{<<x>> \o o : o \in Orders(S \ {x})} : x \in S}

Mp4Files ==
    UNION {
        [len_known : {TRUE}, parse_ok : {TRUE}, ids : {ids},
         type : [ids -> TrackTypes], count : [ids -> 0..MaxSamples],
         bad : {<<>>}, order : Orders(ids), timescale : {1000},
         duration_ms : {1500}] : ids \in TrackIdSets}

Mp4BadFiles ==
    {[f EXCEPT !.bad = b] : f \in {g \in Mp4Files : \A i \in g.ids : g.type[i] = "video"},
                            b \in {<<id, 1>> : id \in {1, 2}}}

Mp4OpenFiles ==
    [len_known : BOOLEAN, parse_ok : BOOLEAN, ids : {{1}},
     type : {[i \in {1} |-> "video"]}, count : {[i \in {1} |-> 1]},
     bad : {<<>>}, order : {<<1>>}, timescale : Timescales,
     duration_ms : Durations]

\* reader.duration() as milliseconds, reader.timescale(), reader.tracks().
ReaderDurationMillis(file) == file.duration_ms
ReaderTimescale(file) == file.timescale
ReaderTrackKeys(file) == file.order

\* The sample k of track id as the reader returns it.
Mp4Sample(id, k) ==
    [start_time |-> (k - 1) * 1000 + id, is_sync |-> (k % 2 = 1),
     bytes |-> <<id, k>>]

\* reader.read_sample(track_id, sample_id): Ok(None) past the last sample.
ReadSample(file, id, k) ==
    IF id \notin file.ids THEN Err("TrakNotFound")
    ELSE IF k < 1 \/ k > file.count[id] THEN Ok(None)
    ELSE IF file.bad = <<id, k>> THEN Err("IoError")
    ELSE Ok(Some(Mp4Sample(id, k)))

DurationMs(millis, timescale) ==
    IF timescale > 0 THEN Some((millis * 1000) \div timescale) ELSE None

Mp4Unopened ==
    [state |-> "unopened", current_track |-> None, current_sample |-> 0,
     metadata |-> Mp4NoMetadata]

\* Mp4Demuxer::new with the length test after the header parse.
Mp4DemuxerNewParseFirst(file) ==
    IF ~file.parse_ok
    THEN [res |-> Err("ContainerParse"), reads |-> 1,
          dmx |-> [Mp4Unopened EXCEPT !.state = "failed"]]
    ELSE IF ~file.len_known
    THEN [res |-> Err("InvalidInput"), reads |-> 1,
          dmx |-> [Mp4Unopened EXCEPT !.state = "failed"]]
    ELSE [res |-> Ok(<<>>), reads |-> 1,
          dmx |-> [state |-> "open", current_track |-> None, current_sample |-> 0,
                   metadata |->
                       [duration_ms |-> DurationMs(ReaderDurationMillis(file),
                                                   ReaderTimescale(file)),
                        stream_count |-> Len(ReaderTrackKeys(file)),
                        format |-> "MP4"]]]

\* Mp4Demuxer::new: the length is asked for first, then the header is read.
Mp4DemuxerNew(file) ==
    IF ~file.len_known
    THEN [res |-> Err("InvalidInput"), reads |-> 0,
          dmx |-> [Mp4Unopened EXCEPT !.state = "failed"]]
    ELSE IF ~file.parse_ok
    THEN [res |-> Err("ContainerParse"), reads |-> 1,
          dmx |-> [Mp4Unopened EXCEPT !.state = "failed"]]
    ELSE [res |-> Ok(<<>>), reads |-> 1,
          dmx |-> [state |-> "open", current_track |-> None, current_sample |-> 0,
                   metadata |->
                       [duration_ms |-> DurationMs(ReaderDurationMillis(file),
                                                   ReaderTimescale(file)),
                        stream_count |-> Len(ReaderTrackKeys(file)),
                        format |-> "MP4"]]]

\* select_track with the cursor placed on the first sample.
SelectTrackCursorOne(file, d, id) ==
    IF id \notin file.ids
    THEN [res |-> Err("InvalidInput"), dmx |-> d]
    ELSE [res |-> Ok(<<>>),
          dmx |-> [d EXCEPT !.current_track = Some(id), !.current_sample = 1]]

\* select_track that leaves the cursor where it is.
SelectTrackKeepCursor(file, d, id) ==
    IF id \notin file.ids
    THEN [res |-> Err("InvalidInput"), dmx |-> d]
    ELSE [res |-> Ok(<<>>), dmx |-> [d EXCEPT !.current_track = Some(id)]]

SelectTrack(file, d, id) ==
    IF id \notin file.ids
    THEN [res |-> Err("InvalidInput"), dmx |-> d]
    ELSE [res |-> Ok(<<>>),
          dmx |-> [d EXCEPT !.current_track = Some(id), !.current_sample = 0]]

TracksOfType(file, ty) ==
    SelectSeq(ReaderTrackKeys(file), LAMBDA id : file.type[id] = ty)

VideoTracks(file) == TracksOfType(file, "video")
AudioTracks(file) == TracksOfType(file, "audio")

SelectVideoTrack(file, d) ==
    IF VideoTracks(file) # <<>>
    THEN SelectTrack(file, d, Head(VideoTracks(file)))
    ELSE [res |-> Err("InvalidInput"), dmx |-> d]

SelectAudioTrack(file, d) ==
    IF AudioTracks(file) # <<>>
    THEN SelectTrack(file, d, Head(AudioTracks(file)))
    ELSE [res |-> Err("InvalidInput"), dmx |-> d]

SamplePacket(track_id, sample) ==
    [stream_index |-> track_id, data |-> sample.bytes,
     pts |-> Some(sample.start_time), dts |-> None,
     is_keyframe |-> sample.is_sync]

\* read_packet once the track is known: the cursor moves first, then the
\* sample under it is read.
ReadSelected(file, d, track_id) ==
    LET d1 == [d EXCEPT !.current_sample = @ + 1]
        r == ReadSample(file, track_id, d1.current_sample)
    IN IF r.tag = "Ok" /\ r.val # None
       THEN [res |-> Ok(Some(SamplePacket(track_id, r.val[1]))), dmx |-> d1]
       ELSE IF r.tag = "Ok"
       THEN [res |-> Ok(None),
             dmx |-> [d1 EXCEPT !.current_track = None, !.current_sample = 0]]
       ELSE [res |-> Err("ContainerParse"), dmx |-> d1]

Mp4ReadPacket(file, d) ==
    IF d.current_track # None
    THEN ReadSelected(file, d, d.current_track[1])
    ELSE IF ReaderTrackKeys(file) # <<>>
    THEN LET first_id == Head(ReaderTrackKeys(file))
             sel == SelectTrack(file, d, first_id)
         IN IF sel.res.tag = "Err" THEN sel
            ELSE ReadSelected(file, sel.dmx, first_id)
    ELSE [res |-> Ok(None), dmx |-> d]

(***************************************************************************)
(* The demuxer's calls.  The caller opens the source once and then calls   *)
(* select_track, select_video_track, select_audio_track and read_packet    *)
(* in any order.                                                           *)
(***************************************************************************)
TrackArgs == 1..4

Mp4Init ==
    /\ mp4File \in Mp4Files \cup Mp4BadFiles \cup Mp4OpenFiles
    /\ dmx = Mp4Unopened
    /\ mp4Last = Mp4NoCall
    /\ mp4Run = Mp4NoRun
    /\ mp4Ended = None
    /\ srcReads = 0

Mp4Call(op, arg, r) ==
    [op |-> op, arg |-> arg, res |-> r.res, trackBefore |-> dmx.current_track,
     sampleBefore |-> dmx.current_sample]

Mp4Open ==
    /\ dmx.state = "unopened"
    /\ LET r == Mp4DemuxerNew(mp4File)
       IN /\ dmx' = r.dmx
          /\ srcReads' = srcReads + r.reads
          /\ mp4Last' = Mp4Call("new", 0, r)
    /\ UNCHANGED <<mp4File, mp4Run, mp4Ended>>

\* A call of one of the three selection methods by the caller.
Mp4Selected(op, arg, r) ==
    /\ dmx' = r.dmx
    /\ mp4Last' = Mp4Call(op, arg, r)
    /\ mp4Run' = IF r.res.tag = "Ok"
                 THEN [track |-> r.dmx.current_track, reads |-> 0, failed |-> FALSE]
                 ELSE mp4Run
    /\ mp4Ended' = None
    /\ UNCHANGED <<mp4File, srcReads>>

Mp4SelectTrack ==
    /\ dmx.state = "open"
    /\ \E id \in TrackArgs : Mp4Selected("select_track", id, SelectTrack(mp4File, dmx, id))

Mp4SelectVideoTrack ==
    /\ dmx.state = "open"
    /\ Mp4Selected("select_video_track", 0, SelectVideoTrack(mp4File, dmx))

Mp4SelectAudioTrack ==
    /\ dmx.state = "open"
    /\ Mp4Selected("select_audio_track", 0, SelectAudioTrack(mp4File, dmx))

Mp4Read ==
    /\ dmx.state = "open"
    /\ LET r == Mp4ReadPacket(mp4File, dmx)
           auto == dmx.current_track = None
           track == IF ~auto THEN dmx.current_track
                    ELSE IF mp4File.order # <<>> THEN Some(mp4File.order[1])
                    ELSE None
           run == IF auto
                  THEN [track |-> track, reads |-> 1, failed |-> FALSE]
                  ELSE [mp4Run EXCEPT !.reads = @ + 1]
       IN /\ dmx' = r.dmx
          /\ mp4Last' = Mp4Call("read_packet", 0, r)
          /\ mp4Run' = [run EXCEPT !.failed = @ \/ r.res.tag = "Err"]
          /\ mp4Ended' = IF r.res = Ok(None) /\ track # None THEN track
                         ELSE mp4Ended
    /\ UNCHANGED <<mp4File, srcReads>>

InitMp4 == EncIdle /\ TilesIdle /\ IvfIdle /\ Mp4Init /\ Y4mIdle /\ FrameIdle /\ SvtIdle /\ CfgIdle /\ PipeIdle

NextMp4 ==
    \/ Mp4Open /\ UNCHANGED encVars /\ UNCHANGED tileVars /\ UNCHANGED ivfVars /\ UNCHANGED y4mVars /\ UNCHANGED frameVars /\ UNCHANGED svtVars /\ UNCHANGED cfgVars /\ UNCHANGED pipeVars
    \/ Mp4SelectTrack /\ UNCHANGED encVars /\ UNCHANGED tileVars /\ UNCHANGED ivfVars /\ UNCHANGED y4mVars /\ UNCHANGED frameVars /\ UNCHANGED svtVars /\ UNCHANGED cfgVars /\ UNCHANGED pipeVars
    \/ Mp4SelectVideoTrack /\ UNCHANGED encVars /\ UNCHANGED tileVars /\ UNCHANGED ivfVars /\ UNCHANGED y4mVars /\ UNCHANGED frameVars /\ UNCHANGED svtVars /\ UNCHANGED cfgVars /\ UNCHANGED pipeVars
    \/ Mp4SelectAudioTrack /\ UNCHANGED encVars /\ UNCHANGED tileVars /\ UNCHANGED ivfVars /\ UNCHANGED y4mVars /\ UNCHANGED frameVars /\ UNCHANGED svtVars /\ UNCHANGED cfgVars /\ UNCHANGED pipeVars
    \/ Mp4Read /\ UNCHANGED encVars /\ UNCHANGED tileVars /\ UNCHANGED ivfVars /\ UNCHANGED y4mVars /\ UNCHANGED frameVars /\ UNCHANGED svtVars /\ UNCHANGED cfgVars /\ UNCHANGED pipeVars

SpecMp4 == InitMp4 /\ [][NextMp4]_vars

(***************************************************************************)
(* Claims about the MP4 demuxer.                                           *)
(***************************************************************************)
SmallestId(ids) == CHOOSE x \in ids : \A y \in ids : x <= y

Mp4LastPacket == mp4Last.res.val[1]

Mp4ReturnedPacket ==
    /\ mp4Last.op = "read_packet"
    /\ mp4Last.res.tag = "Ok"
    /\ mp4Last.res.val # None

\* C14: a read_packet made with no track selected on a file with at least one
\* track selects the smallest track id and reads its sample 1: the packet it
\* returns is sample 1 of the smallest id, and that id is then the selection.
C14_AutoSelectsSmallestId ==
    (mp4Last.op = "read_packet" /\ mp4Last.trackBefore = None /\ mp4File.ids # {}) =>
        /\ Mp4ReturnedPacket =>
               /\ Mp4LastPacket = SamplePacket(SmallestId(mp4File.ids),
                                               Mp4Sample(SmallestId(mp4File.ids), 1))
               /\ dmx.current_track = Some(SmallestId(mp4File.ids))
        /\ mp4Last.res.tag = "Err" =>
               dmx.current_track = Some(SmallestId(mp4File.ids))

\* C15: after the end of track t was reported the selection is cleared, and
\* until the caller calls one of the selection methods no read_packet returns
\* a packet of a track other than t.
C15_NoOtherTrackAfterEnd ==
    /\ (mp4Last.op = "read_packet" /\ mp4Last.res = Ok(None)) =>
           dmx.current_track = None
    /\ (Mp4ReturnedPacket /\ mp4Ended # None) =>
           Mp4LastPacket.stream_index = mp4Ended[1]

\* C16: after a selection and while no read has failed, the k-th read_packet
\* returns sample k of the selected track (stream_index the track id, pts the
\* sample's start time, dts absent, is_keyframe the sync flag), and the read
\* after the last sample reports the end of the track.
C16_KthReadIsSampleK ==
    (mp4Last.op = "read_packet" /\ mp4Run.track # None /\ ~mp4Run.failed) =>
        LET t == mp4Run.track[1]
            k == mp4Run.reads
        IN /\ k <= mp4File.count[t] + 1
           /\ k <= mp4File.count[t] =>
                  /\ mp4Last.res.tag = "Ok"
                  /\ mp4Last.res.val # None
                  /\ Mp4LastPacket.stream_index = t
                  /\ Mp4LastPacket.data = Mp4Sample(t, k).bytes
                  /\ Mp4LastPacket.pts = Some(Mp4Sample(t, k).start_time)
                  /\ Mp4LastPacket.dts = None
                  /\ Mp4LastPacket.is_keyframe = Mp4Sample(t, k).is_sync
           /\ k = mp4File.count[t] + 1 => mp4Last.res = Ok(None)

C16_Witness ==
    /\ mp4Last.op = "read_packet"
    /\ mp4Last.res = Ok(None)
    /\ mp4Run = [track |-> Some(2), reads |-> 3, failed |-> FALSE]
    /\ mp4File.order = <<1, 2>>
    /\ mp4Last.trackBefore = Some(2)

\* C17: select_track with an unknown id fails with InvalidInput and leaves
\* selection and cursor as they were; with a known id it sets the selection
\* and resets the cursor, so that the next read asks for sample 1.
\* select_video_track and select_audio_track fail with InvalidInput when the
\* file has no track of the type, and otherwise select a track of the type.
C17_SelectTrack ==
    /\ mp4Last.op = "select_track" =>
           IF mp4Last.arg \in mp4File.ids
           THEN /\ mp4Last.res = Ok(<<>>)
                /\ dmx.current_track = Some(mp4Last.arg)
                /\ dmx.current_sample = 0
           ELSE /\ mp4Last.res = Err("InvalidInput")
                /\ dmx.current_track = mp4Last.trackBefore
                /\ dmx.current_sample = mp4Last.sampleBefore
    /\ \A ty \in {"video", "audio"} :
           mp4Last.op = "select_" \o ty \o "_track" =>
               IF \E id \in mp4File.ids : mp4File.type[id] = ty
               THEN /\ mp4Last.res = Ok(<<>>)
                    /\ dmx.current_track # None
                    /\ mp4File.type[dmx.current_track[1]] = ty
                    /\ dmx.current_sample = 0
               ELSE /\ mp4Last.res = Err("InvalidInput")
                    /\ dmx.current_track = mp4Last.trackBefore
                    /\ dmx.current_sample = mp4Last.sampleBefore

C17_Witness ==
    /\ mp4Last.op = "select_track"
    /\ mp4Last.arg = 2
    /\ mp4Last.res = Ok(<<>>)
    /\ mp4Last.trackBefore = Some(1)
    /\ mp4Last.sampleBefore = 2
    /\ dmx.current_sample = 0

\* C18: Mp4Demuxer::new on a source of unknown length fails with InvalidInput
\* before any byte of the source is read; on a source of known length whose
\* header does not parse it fails with ContainerParse.
C18_OpenFailuresAreTyped ==
    mp4Last.op = "new" =>
        /\ ~mp4File.len_known =>
               /\ mp4Last.res = Err("InvalidInput")
               /\ srcReads = 0
        /\ (mp4File.len_known /\ ~mp4File.parse_ok) =>
               mp4Last.res = Err("ContainerParse")
        /\ (mp4File.len_known /\ mp4File.parse_ok) => mp4Last.res = Ok(<<>>)
        /\ mp4Last.res.tag = "Err" => dmx.state = "failed"

C18_Witness ==
    /\ mp4Last.op = "new"
    /\ ~mp4File.len_known
    /\ ~mp4File.parse_ok
    /\ mp4Last.res = Err("InvalidInput")
    /\ srcReads = 0

\* C19: the metadata's duration_ms is the container's duration in
\* milliseconds: for every timescale > 0 it is the millisecond value of the
\* reader's duration, for timescale 0 it is absent, and no select_track or
\* read_packet changes it.
C19_DurationIsMilliseconds ==
    dmx.state = "open" =>
        dmx.metadata.duration_ms =
            IF ReaderTimescale(mp4File) > 0
            THEN Some(ReaderDurationMillis(mp4File))
            ELSE None

\* C28: a read_packet call that fails with ContainerParse leaves the selected
\* track and the sample cursor as they were before the call, so that a retry
\* asks for the same sample.
C28_FailedReadKeepsCursor ==
    (mp4Last.op = "read_packet" /\ mp4Last.res = Err("ContainerParse")) =>
        /\ dmx.current_track = mp4Last.trackBefore
        /\ dmx.current_sample = mp4Last.sampleBefore

(***************************************************************************)
(* Frames and planes.  A Plane is a byte buffer with a stride; Frame::new  *)
(* allocates the planes of a pixel format.                                 *)
(***************************************************************************)
Zeros(n) == [i \in 1..n |-> 0]

PlaneNew(width, height) ==
    [data |-> Zeros(width * height), stride |-> width, width |-> width,
     height |-> height]

PlaneFromData(data, width, height, stride) ==
    [data |-> data, stride |-> stride, width |-> width, height |-> height]

\* The planes of Frame::new with the chroma dimensions rounded up.
FrameNewPlanesRoundUp(w, h, format) ==
    CASE format = "Yuv420p" ->
             <<PlaneNew(w, h), PlaneNew((w + 1) \div 2, (h + 1) \div 2),
               PlaneNew((w + 1) \div 2, (h + 1) \div 2)>>
      [] format = "Yuv422p" ->
             <<PlaneNew(w, h), PlaneNew((w + 1) \div 2, h), PlaneNew((w + 1) \div 2, h)>>
      [] format = "Yuv444p" -> <<PlaneNew(w, h), PlaneNew(w, h), PlaneNew(w, h)>>
      [] OTHER -> <<PlaneNew(w * 3, h)>>

FrameNewPlanes(w, h, format) ==
    CASE format = "Yuv420p" ->
             <<PlaneNew(w, h), PlaneNew(w \div 2, h \div 2), PlaneNew(w \div 2, h \div 2)>>
      [] format = "Yuv422p" ->
             <<PlaneNew(w, h), PlaneNew(w \div 2, h), PlaneNew(w \div 2, h)>>
      [] format = "Yuv444p" -> <<PlaneNew(w, h), PlaneNew(w, h), PlaneNew(w, h)>>
      [] OTHER -> <<PlaneNew(w * 3, h)>>

FrameNew(w, h, format) ==
    [width |-> w, height |-> h, format |-> format,
     planes |-> FrameNewPlanes(w, h, format), pts |-> None]

IsYuv(format) == format \in {"Yuv420p", "Yuv422p", "Yuv444p"}

PlaneY(f) == IF IsYuv(f.format) THEN Some(f.planes[1]) ELSE None
PlaneU(f) == IF IsYuv(f.format) THEN Some(f.planes[2]) ELSE None
PlaneV(f) == IF IsYuv(f.format) THEN Some(f.planes[3]) ELSE None

Panic == [tag |-> "Panic", class |-> "", val |-> <<>>]

\* &self.data[start..end]: the slice exists when start <= end <= len.
RowInBounds(p, y) ==
    /\ y * p.stride <= y * p.stride + p.width
    /\ y * p.stride + p.width <= Len(p.data)

PlaneRow(p, y) ==
    IF RowInBounds(p, y)
    THEN Ok(SubSeq(p.data, y * p.stride + 1, y * p.stride + p.width))
    ELSE Panic

\* row_mut(y).fill(value): the plane after the write, or the panic.
PlaneRowMutFill(p, y, value) ==
    IF RowInBounds(p, y)
    THEN [res |-> Ok(<<>>),
          plane |-> [p EXCEPT !.data =
                        [i \in 1..Len(p.data) |->
                            IF i > y * p.stride /\ i <= y * p.stride + p.width
                            THEN value ELSE p.data[i]]]]
    ELSE [res |-> Panic, plane |-> p]

\* Frame::set_pts
SetPts(f, pts) == [f EXCEPT !.pts = Some(pts)]

\* data_mut()[k] = value: the plane after the write; an index past the end
\* of the slice panics.
PlaneDataMutSet(p, k, value) ==
    IF k < Len(p.data)
    THEN [res |-> Ok(<<>>), plane |-> [p EXCEPT !.data[k + 1] = value]]
    ELSE [res |-> Panic, plane |-> p]

FramePtsValues == {0, 5}

\* The rows written through planes_mut: the first and the last of the plane.
MutRows(p) == {y \in {0, p.height - 1} : y >= 0}

\* The indexes written through data_mut: the first, the last, and the one
\* past the end of the buffer.
MutIndexes(p) == {k \in {0, Len(p.data) - 1, Len(p.data)} : k >= 0}

\* The byte written through planes_mut and data_mut.
FillByte == 7

FrameArgSets ==
    {[width |-> w, height |-> h, format |-> f, ctor |-> "new",
      pwidth |-> w, pheight |-> h, stride |-> w, len |-> w * h] :
        w \in 0..MaxDim, h \in 0..MaxDim, f \in PixelFormats}
    \cup
    UNION {{[width |-> 2, height |-> 2, format |-> "Yuv420p", ctor |-> "from_data",
             pwidth |-> w, pheight |-> h, stride |-> st, len |-> n] :
                n \in {st * h, w * h}} :
           w \in 1..MaxDim, h \in 1..MaxDim, st \in 0..MaxDim + 1}

FrameInit ==
    /\ frameArgs \in FrameArgSets
    /\ frame = FrameUnbuilt
    /\ plane = PlaneUnbuilt
    /\ frameLast = FrameNoCall
    /\ frameWrites = 0

FrameCreate ==
    /\ frameLast.op = "none"
    /\ frame' = FrameNew(frameArgs.width, frameArgs.height, frameArgs.format)
    /\ plane' = IF frameArgs.ctor = "new"
                THEN PlaneNew(frameArgs.pwidth, frameArgs.pheight)
                ELSE PlaneFromData(Zeros(frameArgs.len), frameArgs.pwidth,
                                   frameArgs.pheight, frameArgs.stride)
    /\ frameLast' = [FrameNoCall EXCEPT !.op = "new"]
    /\ UNCHANGED <<frameArgs, frameWrites>>

PlaneReadRow ==
    /\ frameLast.op # "none"
    /\ frameLast.res.tag # "Panic"
    /\ \E y \in 0..plane.height - 1 :
           frameLast' = [op |-> "row", y |-> y, res |-> PlaneRow(plane, y),
                         before |-> plane.data]
    /\ UNCHANGED <<frameArgs, frame, plane, frameWrites>>

PlaneWriteRow ==
    /\ frameLast.op # "none"
    /\ frameLast.res.tag # "Panic"
    /\ \E y \in 0..plane.height - 1 :
           LET r == PlaneRowMutFill(plane, y, y + 1)
           IN /\ plane' = r.plane
              /\ frameLast' = [op |-> "row_mut", y |-> y, res |-> r.res,
                               before |-> plane.data]
    /\ UNCHANGED <<frameArgs, frame, frameWrites>>

\* frame.set_pts(pts)
FrameSetPts ==
    /\ frameLast.op # "none"
    /\ frameLast.res.tag # "Panic"
    /\ frameWrites < MaxWrites
    /\ \E pts \in FramePtsValues :
           /\ frame' = SetPts(frame, pts)
           /\ frameLast' = [op |-> "set_pts", y |-> pts, res |-> Ok(<<>>),
                            before |-> plane.data]
    /\ frameWrites' = frameWrites + 1
    /\ UNCHANGED <<frameArgs, plane>>

\* frame.planes_mut()[i].row_mut(y).fill(value)
FramePlanesMut ==
    /\ frameLast.op # "none"
    /\ frameLast.res.tag # "Panic"
    /\ frameWrites < MaxWrites
    /\ \E i \in 1..Len(frame.planes) :
       \E y \in MutRows(frame.planes[i]) :
           LET r == PlaneRowMutFill(frame.planes[i], y, FillByte)
           IN /\ frame' = [frame EXCEPT !.planes[i] = r.plane]
              /\ frameLast' = [op |-> "planes_mut", y |-> y, res |-> r.res,
                               before |-> plane.data]
    /\ frameWrites' = frameWrites + 1
    /\ UNCHANGED <<frameArgs, plane>>

\* plane.data_mut()[k] = value
PlaneDataMut ==
    /\ frameLast.op # "none"
    /\ frameLast.res.tag # "Panic"
    /\ frameWrites < MaxWrites
    /\ \E k \in MutIndexes(plane) :
           LET r == PlaneDataMutSet(plane, k, FillByte)
           IN /\ plane' = r.plane
              /\ frameLast' = [op |-> "data_mut", y |-> k, res |-> r.res,
                               before |-> plane.data]
    /\ frameWrites' = frameWrites + 1
    /\ UNCHANGED <<frameArgs, frame>>

InitFrame == EncIdle /\ TilesIdle /\ IvfIdle /\ Mp4Idle /\ Y4mIdle /\ FrameInit /\ SvtIdle /\ CfgIdle /\ PipeIdle

NextFrame ==
    \/ FrameCreate /\ UNCHANGED encVars /\ UNCHANGED tileVars /\ UNCHANGED ivfVars /\ UNCHANGED mp4Vars /\ UNCHANGED y4mVars /\ UNCHANGED svtVars /\ UNCHANGED cfgVars /\ UNCHANGED pipeVars
    \/ PlaneReadRow /\ UNCHANGED encVars /\ UNCHANGED tileVars /\ UNCHANGED ivfVars /\ UNCHANGED mp4Vars /\ UNCHANGED y4mVars /\ UNCHANGED svtVars /\ UNCHANGED cfgVars /\ UNCHANGED pipeVars
    \/ PlaneWriteRow /\ UNCHANGED encVars /\ UNCHANGED tileVars /\ UNCHANGED ivfVars /\ UNCHANGED mp4Vars /\ UNCHANGED y4mVars /\ UNCHANGED svtVars /\ UNCHANGED cfgVars /\ UNCHANGED pipeVars
    \/ FrameSetPts /\ UNCHANGED encVars /\ UNCHANGED tileVars /\ UNCHANGED ivfVars /\ UNCHANGED mp4Vars /\ UNCHANGED y4mVars /\ UNCHANGED svtVars /\ UNCHANGED cfgVars /\ UNCHANGED pipeVars
    \/ FramePlanesMut /\ UNCHANGED encVars /\ UNCHANGED tileVars /\ UNCHANGED ivfVars /\ UNCHANGED mp4Vars /\ UNCHANGED y4mVars /\ UNCHANGED svtVars /\ UNCHANGED cfgVars /\ UNCHANGED pipeVars
    \/ PlaneDataMut /\ UNCHANGED encVars /\ UNCHANGED tileVars /\ UNCHANGED ivfVars /\ UNCHANGED mp4Vars /\ UNCHANGED y4mVars /\ UNCHANGED svtVars /\ UNCHANGED cfgVars /\ UNCHANGED pipeVars

SpecFrame == InitFrame /\ [][NextFrame]_vars

(***************************************************************************)
(* Claims about frames and planes.                                         *)
(***************************************************************************)
\* The subsampling table: <<width, height>> of each plane (integer division).
TablePlaneDims(w, h, format) ==
    CASE format = "Yuv420p" -> <<<<w, h>>, <<w \div 2, h \div 2>>, <<w \div 2, h \div 2>>>>
      [] format = "Yuv422p" -> <<<<w, h>>, <<w \div 2, h>>, <<w \div 2, h>>>>
      [] format = "Yuv444p" -> <<<<w, h>>, <<w, h>>, <<w, h>>>>
      [] format = "Rgb24" -> <<<<3 * w, h>>>>

\* C22: Frame::new builds exactly the planes of the subsampling table, each
\* zero-filled with stride = width and width*height bytes; the frame's pts is
\* absent, and plane_y, plane_u, plane_v are absent exactly for Rgb24.
C22_FrameNewPlanesMatchTable ==
    (frameLast.op # "none" /\ frameWrites = 0) =>
        LET dims == TablePlaneDims(frameArgs.width, frameArgs.height, frameArgs.format)
        IN /\ frame.width = frameArgs.width
           /\ frame.height = frameArgs.height
           /\ frame.format = frameArgs.format
           /\ Len(frame.planes) = Len(dims)
           /\ \A i \in 1..Len(frame.planes) :
                  /\ frame.planes[i].width = dims[i][1]
                  /\ frame.planes[i].height = dims[i][2]
                  /\ frame.planes[i].stride = frame.planes[i].width
                  /\ Len(frame.planes[i].data) = dims[i][1] * dims[i][2]
                  /\ \A k \in 1..Len(frame.planes[i].data) : frame.planes[i].data[k] = 0
           /\ frame.pts = None
           /\ (PlaneY(frame) = None) <=> (frameArgs.format = "Rgb24")
           /\ (PlaneU(frame) = None) <=> (frameArgs.format = "Rgb24")
           /\ (PlaneV(frame) = None) <=> (frameArgs.format = "Rgb24")
           /\ PlaneY(frame) # None => PlaneY(frame)[1] = frame.planes[1]

C22_Witness ==
    /\ frameLast.op = "new"
    /\ frameArgs.format = "Yuv420p"
    /\ frameArgs.width = 3
    /\ frameArgs.height = 3
    /\ Len(frame.planes) = 3
    /\ Len(frame.planes[2].data) = 1

\* C23: every Plane, from Plane::new or Plane::from_data, has stride >= width
\* and a buffer of stride * height bytes; row(y) for y < height returns the
\* width bytes at offset y * stride, and a write through row_mut(y) changes
\* no byte of another row.
C23_PlaneInvariant ==
    frameLast.op # "none" =>
        /\ plane.stride >= plane.width
        /\ Len(plane.data) = plane.stride * plane.height
        /\ frameLast.op = "row" =>
               /\ frameLast.res.tag = "Ok"
               /\ Len(frameLast.res.val) = plane.width
               /\ \A k \in 1..plane.width :
                      frameLast.res.val[k] = plane.data[frameLast.y * plane.stride + k]
        /\ frameLast.op = "row_mut" =>
               /\ frameLast.res.tag = "Ok"
               /\ \A y2 \in 0..plane.height - 1 : \A k \in 1..plane.width :
                      y2 # frameLast.y =>
                          plane.data[y2 * plane.stride + k]
                              = frameLast.before[y2 * plane.stride + k]

(***************************************************************************)
(* The Y4M demuxer.  The y4m decoder is the environment: it parses the     *)
(* header line when the demuxer is opened and fails on a malformed header  *)
(* or on a colorspace tag it does not know; afterwards it hands out the    *)
(* stream's frames one by one, then reports the end of the input.  bad,    *)
(* when not 0, is the number of a frame the decoder fails on.              *)
(***************************************************************************)
DecoderColorspaces ==
    {"Cmono", "Cmono12", "C420", "C420p10", "C420p12", "C420jpeg",
     "C420paldv", "C420mpeg2", "C422", "C422p10", "C422p12", "C444",
     "C444p10", "C444p12"}

Y4mTags == DecoderColorspaces \cup {"C411", "C420p16"}

Y4mDims == {<<4, 2>>, <<3, 3>>, <<2, 3>>, <<1, 1>>}

\* The byte every pixel of the stream's frames has.
Y4mPixels == {0, 128}

Y4mFiles ==
    {[well_formed |-> wf, tag |-> t, width |-> d[1], height |-> d[2],
      frames |-> n, bad |-> b, pixel |-> px] :
        wf \in BOOLEAN, t \in Y4mTags, d \in Y4mDims, n \in 0..MaxY4mFrames,
        b \in 0..1, px \in Y4mPixels}

\* y4m::Decoder::new(reader): the colorspace the header declares.
DecoderNew(file) ==
    IF ~file.well_formed THEN Err("ParseError")
    ELSE IF file.tag \notin DecoderColorspaces THEN Err("UnknownColorspace")
    ELSE Ok(file.tag)

\* The colorspace match of Y4mDemuxer::new.
ColorspaceToPixelFormat(colorspace) ==
    CASE colorspace \in {"C420", "C420jpeg", "C420paldv", "C420mpeg2"} -> Ok("Yuv420p")
      [] colorspace = "C422" -> Ok("Yuv422p")
      [] colorspace = "C444" -> Ok("Yuv444p")
      [] OTHER -> Err("InvalidInput")

Y4mDemuxerNew(file) ==
    LET dec == DecoderNew(file)
        pf == ColorspaceToPixelFormat(dec.val)
    IN IF dec.tag = "Err"
       THEN [res |-> Err("ContainerParse"), y4m |-> [Y4mNoDemuxer EXCEPT !.state = "failed"]]
       ELSE IF pf.tag = "Err"
       THEN [res |-> Err("InvalidInput"), y4m |-> [Y4mNoDemuxer EXCEPT !.state = "failed"]]
       ELSE [res |-> Ok(<<>>),
             y4m |-> [state |-> "open", width |-> file.width, height |-> file.height,
                      pixel_format |-> pf.val, frame_count |-> 0, pos |-> 0]]

\* Byte lengths of the planes the decoder hands out for one frame of an
\* accepted colorspace: chroma dimensions are rounded up.
DecoderPlaneLens(w, h, pixel_format) ==
    CASE pixel_format = "Yuv420p" ->
             <<w * h, ((w + 1) \div 2) * ((h + 1) \div 2), ((w + 1) \div 2) * ((h + 1) \div 2)>>
      [] pixel_format = "Yuv422p" ->
             <<w * h, ((w + 1) \div 2) * h, ((w + 1) \div 2) * h>>
      [] OTHER -> <<w * h, w * h, w * h>>

\* Byte lengths of the planes Frame::new allocates.
FramePlaneLens(w, h, format) ==
    [i \in 1..Len(FrameNewPlanes(w, h, format)) |->
        Len(FrameNewPlanes(w, h, format)[i].data)]

\* decoder.read_frame() at position pos of the stream: the bytes of the
\* Y, U and V planes of the frame.
DecoderReadFrame(file, pos) ==
    IF pos >= file.frames THEN Err("EOF")
    ELSE IF file.bad = pos + 1 THEN Err("ParseError")
    ELSE LET lens == DecoderPlaneLens(file.width, file.height,
                                      ColorspaceToPixelFormat(file.tag).val)
         IN Ok([i \in 1..3 |-> [k \in 1..lens[i] |-> file.pixel]])

\* data_mut()[..src.len()].copy_from_slice(src), for Len(src) <= Len(dst).
CopyToPrefix(dst, src) == src \o SubSeq(dst, Len(src) + 1, Len(dst))

\* The three plane copies: copy_from_slice needs equal lengths for Y, the
\* chroma copies slice the destination to the source's length.
PlaneCopiesFit(src, dst) ==
    /\ src[1] = dst[1]
    /\ src[2] <= dst[2]
    /\ src[3] <= dst[3]

Y4mReadFrame(file, d) ==
    LET r == DecoderReadFrame(file, d.pos)
        empty == FrameNew(d.width, d.height, d.pixel_format)
        new_frame ==
            [empty EXCEPT !.planes =
                [i \in 1..Len(empty.planes) |->
                    [empty.planes[i] EXCEPT !.data =
                        IF i = 1 THEN r.val[1]
                        ELSE CopyToPrefix(empty.planes[i].data, r.val[i])]]]
    IN IF r.tag = "Err" /\ r.class = "EOF"
       THEN [res |-> Ok(None), y4m |-> d]
       ELSE IF r.tag = "Err"
       THEN [res |-> Err("ContainerParse"), y4m |-> d]
       ELSE IF ~PlaneCopiesFit([i \in 1..3 |-> Len(r.val[i])],
                               FramePlaneLens(d.width, d.height, d.pixel_format))
       THEN [res |-> [tag |-> "Panic", class |-> "", val |-> <<>>],
             y4m |-> [d EXCEPT !.state = "panicked", !.pos = @ + 1]]
       ELSE [res |-> Ok(Some(new_frame)),
             y4m |-> [d EXCEPT !.frame_count = @ + 1, !.pos = @ + 1]]

Y4mInit ==
    /\ y4mFile \in Y4mFiles
    /\ y4m = [Y4mNoDemuxer EXCEPT !.state = "unopened"]
    /\ y4mLast = Y4mNoCall

Y4mCall(op, r) ==
    [op |-> op, res |-> r.res, countBefore |-> y4m.frame_count, posBefore |-> y4m.pos]

Y4mOpen ==
    /\ y4m.state = "unopened"
    /\ LET r == Y4mDemuxerNew(y4mFile)
       IN /\ y4m' = r.y4m
          /\ y4mLast' = Y4mCall("new", r)
    /\ UNCHANGED y4mFile

Y4mRead ==
    /\ y4m.state = "open"
    /\ LET r == Y4mReadFrame(y4mFile, y4m)
       IN /\ y4m' = r.y4m
          /\ y4mLast' = Y4mCall("read_frame", r)
    /\ UNCHANGED y4mFile

InitY4m == EncIdle /\ TilesIdle /\ IvfIdle /\ Mp4Idle /\ Y4mInit /\ FrameIdle /\ SvtIdle /\ CfgIdle /\ PipeIdle

NextY4m ==
    \/ Y4mOpen /\ UNCHANGED encVars /\ UNCHANGED tileVars /\ UNCHANGED ivfVars /\ UNCHANGED mp4Vars /\ UNCHANGED frameVars /\ UNCHANGED svtVars /\ UNCHANGED cfgVars /\ UNCHANGED pipeVars
    \/ Y4mRead /\ UNCHANGED encVars /\ UNCHANGED tileVars /\ UNCHANGED ivfVars /\ UNCHANGED mp4Vars /\ UNCHANGED frameVars /\ UNCHANGED svtVars /\ UNCHANGED cfgVars /\ UNCHANGED pipeVars

SpecY4m == InitY4m /\ [][NextY4m]_vars

(***************************************************************************)
(* Claims about the Y4M demuxer.                                           *)
(***************************************************************************)
\* C20: Y4mDemuxer::new accepts exactly the tags C420, C420jpeg, C420paldv,
\* C420mpeg2 (as Yuv420p), C422 (as Yuv422p) and C444 (as Yuv444p); a
\* well-formed header with any other colorspace tag makes it return
\* InvalidInput, with no demuxer created and no frame read.
C20_OnlyEightBitColorspaces ==
    (y4mLast.op = "new" /\ y4mFile.well_formed) =>
        /\ y4mFile.tag \in {"C420", "C420jpeg", "C420paldv", "C420mpeg2"} =>
               (y4mLast.res = Ok(<<>>) /\ y4m.pixel_format = "Yuv420p")
        /\ y4mFile.tag = "C422" =>
               (y4mLast.res = Ok(<<>>) /\ y4m.pixel_format = "Yuv422p")
        /\ y4mFile.tag = "C444" =>
               (y4mLast.res = Ok(<<>>) /\ y4m.pixel_format = "Yuv444p")
        /\ y4mFile.tag \notin {"C420", "C420jpeg", "C420paldv", "C420mpeg2", "C422", "C444"} =>
               /\ y4mLast.res = Err("InvalidInput")
               /\ y4m.state = "failed"
               /\ y4m.pos = 0

\* C21: a read_frame call with a frame left in the stream consumes that one
\* frame and returns a Frame with the header's width, height and pixel
\* format, adding one to frame_count(); at the end of the input it returns
\* Ok(None) and on a decode error ContainerParse, both leaving frame_count()
\* as it was; frame_count() is 0 after new.
C21_ReadFrameOneFrame ==
    /\ (y4mLast.op = "new" /\ y4mLast.res.tag = "Ok") => y4m.frame_count = 0
    /\ y4mLast.op = "read_frame" =>
           IF y4mLast.posBefore >= y4mFile.frames
           THEN /\ y4mLast.res = Ok(None)
                /\ y4m.frame_count = y4mLast.countBefore
           ELSE IF y4mFile.bad = y4mLast.posBefore + 1
           THEN /\ y4mLast.res = Err("ContainerParse")
                /\ y4m.frame_count = y4mLast.countBefore
           ELSE /\ y4mLast.res.tag = "Ok"
                /\ y4mLast.res.val # None
                /\ y4mLast.res.val[1].width = y4mFile.width
                /\ y4mLast.res.val[1].height = y4mFile.height
                /\ y4mLast.res.val[1].format = ColorspaceToPixelFormat(y4mFile.tag).val
                /\ y4m.pos = y4mLast.posBefore + 1
                /\ y4m.frame_count = y4mLast.countBefore + 1

\* C27: for every width and height of an opened stream each plane the
\* decoder hands out is no longer than the plane Frame::new allocates for it
\* (the Y plane exactly as long), and read_frame never panics.
C27_PlaneCopiesInBounds ==
    /\ y4m.state \in {"open", "panicked"} =>
           PlaneCopiesFit(DecoderPlaneLens(y4m.width, y4m.height, y4m.pixel_format),
                          FramePlaneLens(y4m.width, y4m.height, y4m.pixel_format))
    /\ y4mLast.res.tag # "Panic"

(***************************************************************************)
(* The SVT-AV1 encoder wrapper.  The library is the environment: it owns   *)
(* the handle, takes pictures, encodes them on its own threads            *)
(* (SvtLibEncode) and hands out one packet per picture in submission       *)
(* order, then an end-of-stream buffer.  svt_av1_enc_get_packet is called  *)
(* with pic_send_done = 0 and does not wait: it answers with a non-zero    *)
(* code when no packet is ready.  misuse records a call on a handle that   *)
(* is not live.                                                            *)
(***************************************************************************)
SvtLibPlans ==
    {<<TRUE, TRUE, TRUE>>, <<FALSE, TRUE, TRUE>>, <<TRUE, FALSE, TRUE>>,
     <<TRUE, TRUE, FALSE>>}

SvtValidConfigs ==
    {[preset |-> c[1], width |-> c[2], height |-> c[3], qp |-> c[4], bit_depth |-> c[5],
      init_handle_ok |-> pl[1], set_parameter_ok |-> pl[2], enc_init_ok |-> pl[3]] :
        c \in {<<8, 64, 64, 35, 8>>, <<13, 32, 64, 63, 10>>}, pl \in SvtLibPlans}

SvtInvalidConfigs ==
    {[preset |-> c[1], width |-> c[2], height |-> c[3], qp |-> c[4], bit_depth |-> c[5],
      init_handle_ok |-> TRUE, set_parameter_ok |-> TRUE, enc_init_ok |-> TRUE] :
        c \in {<<8, 0, 64, 35, 8>>, <<8, 64, 0, 35, 8>>, <<14, 64, 64, 35, 8>>,
               <<8, 64, 64, 64, 8>>, <<8, 64, 64, 35, 12>>}}

SvtConfigValid(config) ==
    /\ ~(config.width = 0 \/ config.height = 0)
    /\ ~(config.preset > 13)
    /\ ~(config.qp > 63)
    /\ ~(config.bit_depth # 8 /\ config.bit_depth # 10)

\* A call that uses the handle: it is a misuse unless the handle is live.
LibUse(lib) == [lib EXCEPT !.misuse = @ \/ lib.handle # "live"]

LibInitHandle(lib, ok) ==
    IF ok THEN [lib EXCEPT !.handle = "live", !.acquired = @ + 1] ELSE lib

LibDeinitHandle(lib) ==
    [LibUse(lib) EXCEPT !.handle = "released", !.released = @ + 1]

LibSendPicture(lib) == [LibUse(lib) EXCEPT !.submitted = @ + 1]

LibSendEos(lib) == [LibUse(lib) EXCEPT !.eos_sent = TRUE]

\* svt_av1_enc_get_packet(handle, &mut output_buffer, 0).
LibGetPacket(lib) ==
    IF lib.delivered < lib.encoded
    THEN [err |-> 0, eos |-> FALSE, packet |-> lib.delivered + 1,
          lib |-> [LibUse(lib) EXCEPT !.delivered = @ + 1]]
    ELSE IF lib.eos_sent /\ lib.encoded = lib.submitted /\ ~lib.eos_delivered
    THEN [err |-> 0, eos |-> TRUE, packet |-> 0,
          lib |-> [LibUse(lib) EXCEPT !.eos_delivered = TRUE]]
    ELSE [err |-> 1, eos |-> FALSE, packet |-> 0, lib |-> LibUse(lib)]

SvtFailed == [SvtUnbuilt EXCEPT !.state = "failed"]

\* SvtAv1Encoder::new without the release on the enc_init failure path.
SvtNewLeakOnInitFailure(config, lib) ==
    IF ~SvtConfigValid(config)
    THEN [res |-> Err("InvalidInput"), svt |-> SvtFailed, lib |-> lib]
    ELSE IF ~config.init_handle_ok
    THEN [res |-> Err("Codec"), svt |-> SvtFailed, lib |-> LibInitHandle(lib, FALSE)]
    ELSE IF ~config.set_parameter_ok
    THEN [res |-> Err("Codec"), svt |-> SvtFailed,
          lib |-> LibDeinitHandle(LibUse(LibInitHandle(lib, TRUE)))]
    ELSE IF ~config.enc_init_ok
    THEN [res |-> Err("Codec"), svt |-> SvtFailed,
          lib |-> LibUse(LibUse(LibInitHandle(lib, TRUE)))]
    ELSE [res |-> Ok(<<>>),
          svt |-> [state |-> "live", width |-> config.width, height |-> config.height,
                   frame_count |-> 0],
          lib |-> LibUse(LibUse(LibInitHandle(lib, TRUE)))]

SvtNew(config, lib) ==
    IF ~SvtConfigValid(config)
    THEN [res |-> Err("InvalidInput"), svt |-> SvtFailed, lib |-> lib]
    ELSE IF ~config.init_handle_ok
    THEN [res |-> Err("Codec"), svt |-> SvtFailed, lib |-> LibInitHandle(lib, FALSE)]
    ELSE IF ~config.set_parameter_ok
    THEN [res |-> Err("Codec"), svt |-> SvtFailed,
          lib |-> LibDeinitHandle(LibUse(LibInitHandle(lib, TRUE)))]
    ELSE IF ~config.enc_init_ok
    THEN [res |-> Err("Codec"), svt |-> SvtFailed,
          lib |-> LibDeinitHandle(LibUse(LibUse(LibInitHandle(lib, TRUE))))]
    ELSE [res |-> Ok(<<>>),
          svt |-> [state |-> "live", width |-> config.width, height |-> config.height,
                   frame_count |-> 0],
          lib |-> LibUse(LibUse(LibInitHandle(lib, TRUE)))]

\* Drop: svt_av1_enc_deinit, then svt_av1_enc_deinit_handle, on a non-null handle.
SvtDropped(e, lib) ==
    [svt |-> [e EXCEPT !.state = "dropped"], lib |-> LibDeinitHandle(LibUse(lib))]

\* send_frame(Some(frame)); accepted is the library's answer to send_picture.
SvtSendFrameSome(e, lib, f, accepted) ==
    IF f.format # "Yuv420p"
    THEN [res |-> Err("UnsupportedFormat"), svt |-> e, lib |-> lib]
    ELSE IF f.width # e.width \/ f.height # e.height
    THEN [res |-> Err("InvalidInput"), svt |-> e, lib |-> lib]
    ELSE IF Len(FrameNewPlanes(f.width, f.height, f.format)) # 3
    THEN [res |-> Err("InvalidInput"), svt |-> e, lib |-> lib]
    ELSE IF ~accepted
    THEN [res |-> Err("Codec"), svt |-> e, lib |-> LibUse(lib)]
    ELSE [res |-> Ok(<<>>), svt |-> [e EXCEPT !.frame_count = @ + 1],
          lib |-> LibSendPicture(lib)]

\* send_frame(None): accepted is the library's answer to the EOS buffer.
SvtSendFrameNone(e, lib, accepted) ==
    IF ~accepted
    THEN [res |-> Err("Codec"), svt |-> e, lib |-> LibUse(lib)]
    ELSE [res |-> Ok(<<>>), svt |-> e, lib |-> LibSendEos(lib)]

SvtReceivePacket(e, lib) ==
    LET g == LibGetPacket(lib)
    IN IF g.err # 0 THEN [res |-> Ok(None), svt |-> e, lib |-> g.lib]
       ELSE IF g.eos THEN [res |-> Ok(None), svt |-> e, lib |-> g.lib]
       ELSE [res |-> Ok(Some(g.packet)), svt |-> e, lib |-> g.lib]

RECURSIVE SvtFinishLoop(_, _, _)
SvtFinishLoop(e, lib, packets) ==
    LET r == SvtReceivePacket(e, lib)
    IN IF r.res.val = None
       THEN [res |-> Ok(packets), svt |-> r.svt, lib |-> r.lib]
       ELSE SvtFinishLoop(r.svt, r.lib, packets \o r.res.val)

\* finish(): end-of-stream, then the drain loop; in_time is the number of
\* pictures the library finishes encoding while the loop is polling.
SvtFinish(e, lib, in_time, accepted) ==
    LET s == SvtSendFrameNone(e, lib, accepted)
    IN IF s.res.tag = "Err"
       THEN s
       ELSE SvtFinishLoop(s.svt, [s.lib EXCEPT !.encoded = @ + in_time], <<>>)

(***************************************************************************)
(* The SvtAv1Encoder's calls.  Once the encoder is built, every call of    *)
(* the VideoEncoder protocol is made on it and on a software Av1Encoder    *)
(* of the same dimensions (enc, ctx), with the same argument.              *)
(***************************************************************************)
SvtFrames == {f \in Frames : f.height = 64 /\ f.format # "Yuv444p"}

SvtInit ==
    /\ svtCfg \in SvtValidConfigs \cup SvtInvalidConfigs
    /\ svt = SvtUnbuilt
    /\ svtLib = SvtLibNone
    /\ svtLast = SvtNoCall
    /\ svtOut = <<>>
    /\ enc = IF SvtConfigValid(svtCfg)
             THEN [width |-> svtCfg.width, height |-> svtCfg.height]
             ELSE [width |-> 64, height |-> 64]
    /\ \E la \in {0, MaxLookahead} : ctx = NewContext(la, <<>>)
    /\ lastCall = NoCall
    /\ received = <<>>
    /\ eos = FALSE
    /\ finished = FALSE

SvtCall(op, f, r) ==
    [op |-> op, frame |-> f, res |-> r.res, eosBefore |-> svtLib.eos_sent]

SvtCreate ==
    /\ svt.state = "unbuilt"
    /\ LET r == SvtNew(svtCfg, svtLib)
       IN /\ svt' = r.svt
          /\ svtLib' = r.lib
          /\ svtLast' = SvtCall("new", NoFrame, r)
    /\ UNCHANGED <<svtCfg, svtOut>>

SvtDrop ==
    /\ svt.state = "live"
    /\ LET r == SvtDropped(svt, svtLib)
       IN /\ svt' = r.svt
          /\ svtLib' = r.lib
          /\ svtLast' = [SvtNoCall EXCEPT !.op = "drop", !.eosBefore = svtLib.eos_sent]
    /\ UNCHANGED <<svtCfg, svtOut>>

\* The library's threads finish encoding one more picture.
SvtLibEncode ==
    /\ svt.state = "live"
    /\ svtLib.encoded < svtLib.submitted
    /\ svtLib' = [svtLib EXCEPT !.encoded = @ + 1]
    /\ UNCHANGED <<svtCfg, svt, svtLast, svtOut>>

SvtPairSendFrame ==
    /\ svt.state = "live"
    /\ \E f \in SvtFrames, accepted \in BOOLEAN :
           LET r == SvtSendFrameSome(svt, svtLib, f, accepted)
               a == SendFrameSome(enc, ctx, f)
           IN /\ r.lib.submitted <= MaxFrames
              /\ a.ctx.frame_count <= MaxFrames
              /\ svt' = r.svt
              /\ svtLib' = r.lib
              /\ svtLast' = SvtCall("send_frame", f, r)
              /\ ctx' = a.ctx
              /\ lastCall' = Call("send_frame", f, a, ctx)
    /\ UNCHANGED <<svtCfg, svtOut, enc, received, eos, finished>>

SvtPairSendEos ==
    /\ svt.state = "live"
    /\ \E accepted \in BOOLEAN :
           LET r == SvtSendFrameNone(svt, svtLib, accepted)
               a == SendFrameNone(ctx)
           IN /\ svt' = r.svt
              /\ svtLib' = r.lib
              /\ svtLast' = SvtCall("send_eos", NoFrame, r)
              /\ ctx' = a.ctx
              /\ lastCall' = Call("send_eos", NoFrame, a, ctx)
              /\ eos' = TRUE
    /\ UNCHANGED <<svtCfg, svtOut, enc, received, finished>>

SvtPairReceivePacket ==
    /\ svt.state = "live"
    /\ LET r == SvtReceivePacket(svt, svtLib)
           a == ReceivePacket(ctx)
       IN /\ svt' = r.svt
          /\ svtLib' = r.lib
          /\ svtLast' = SvtCall("receive_packet", NoFrame, r)
          /\ svtOut' = svtOut \o r.res.val
          /\ ctx' = a.ctx
          /\ lastCall' = Call("receive_packet", NoFrame, a, ctx)
          /\ received' = IF a.res.tag = "Ok" THEN received \o a.res.val ELSE received
    /\ UNCHANGED <<svtCfg, enc, eos, finished>>

SvtPairFinish ==
    /\ svt.state = "live"
    /\ \E in_time \in 0..(svtLib.submitted - svtLib.encoded), accepted \in BOOLEAN :
           LET r == SvtFinish(svt, svtLib, in_time, accepted)
               a == Finish(ctx)
           IN /\ svt' = r.svt
              /\ svtLib' = r.lib
              /\ svtLast' = SvtCall("finish", NoFrame, r)
              /\ svtOut' = svtOut \o r.res.val
              /\ ctx' = a.ctx
              /\ lastCall' = Call("finish", NoFrame, a, ctx)
              /\ received' = IF a.res.tag = "Ok" THEN received \o a.res.val ELSE received
              /\ eos' = TRUE
              /\ finished' = (finished \/ a.res.tag = "Ok")
    /\ UNCHANGED <<svtCfg, enc>>

InitSvt == SvtInit /\ TilesIdle /\ IvfIdle /\ Mp4Idle /\ Y4mIdle /\ FrameIdle /\ CfgIdle /\ PipeIdle

NextSvt ==
    \/ SvtCreate /\ UNCHANGED encVars /\ UNCHANGED tileVars /\ UNCHANGED ivfVars /\ UNCHANGED mp4Vars /\ UNCHANGED y4mVars /\ UNCHANGED frameVars /\ UNCHANGED cfgVars /\ UNCHANGED pipeVars
    \/ SvtDrop /\ UNCHANGED encVars /\ UNCHANGED tileVars /\ UNCHANGED ivfVars /\ UNCHANGED mp4Vars /\ UNCHANGED y4mVars /\ UNCHANGED frameVars /\ UNCHANGED cfgVars /\ UNCHANGED pipeVars
    \/ SvtLibEncode /\ UNCHANGED encVars /\ UNCHANGED tileVars /\ UNCHANGED ivfVars /\ UNCHANGED mp4Vars /\ UNCHANGED y4mVars /\ UNCHANGED frameVars /\ UNCHANGED cfgVars /\ UNCHANGED pipeVars
    \/ SvtPairSendFrame /\ UNCHANGED tileVars /\ UNCHANGED ivfVars /\ UNCHANGED mp4Vars /\ UNCHANGED y4mVars /\ UNCHANGED frameVars /\ UNCHANGED cfgVars /\ UNCHANGED pipeVars
    \/ SvtPairSendEos /\ UNCHANGED tileVars /\ UNCHANGED ivfVars /\ UNCHANGED mp4Vars /\ UNCHANGED y4mVars /\ UNCHANGED frameVars /\ UNCHANGED cfgVars /\ UNCHANGED pipeVars
    \/ SvtPairReceivePacket /\ UNCHANGED tileVars /\ UNCHANGED ivfVars /\ UNCHANGED mp4Vars /\ UNCHANGED y4mVars /\ UNCHANGED frameVars /\ UNCHANGED cfgVars /\ UNCHANGED pipeVars
    \/ SvtPairFinish /\ UNCHANGED tileVars /\ UNCHANGED ivfVars /\ UNCHANGED mp4Vars /\ UNCHANGED y4mVars /\ UNCHANGED frameVars /\ UNCHANGED cfgVars /\ UNCHANGED pipeVars

SpecSvt == InitSvt /\ [][NextSvt]_vars

(***************************************************************************)
(* Claims about the SvtAv1Encoder.                                         *)
(***************************************************************************)
OutcomeClass(res) == IF res.tag = "Ok" THEN "Ok" ELSE res.class

\* C24: on the same sequence of calls the SvtAv1Encoder and the Av1Encoder
\* report the same outcome class at every step; both reject a frame of wrong
\* dimensions or of a format other than 4:2:0 with InvalidInput, and both
\* reject a frame submitted after end-of-stream.
C24_SameOutcomeClass ==
    svtLast.op \in {"send_frame", "send_eos", "receive_packet", "finish"} =>
        /\ OutcomeClass(svtLast.res) = OutcomeClass(lastCall.res)
        /\ (svtLast.op = "send_frame"
                /\ (~FrameDimsMatch(enc, svtLast.frame) \/ svtLast.frame.format # "Yuv420p")) =>
               /\ svtLast.res = Err("InvalidInput")
               /\ lastCall.res = Err("InvalidInput")
        /\ (svtLast.op = "send_frame" /\ svtLast.eosBefore) =>
               /\ svtLast.res.tag = "Err"
               /\ lastCall.res.tag = "Err"

\* C25: the handle obtained by svt_av1_enc_init_handle is released exactly
\* once on every path (set_parameter failure, enc_init failure, drop of a
\* built encoder), never twice, and no call is made on a handle that is not
\* live; new() with width or height 0, preset > 13, qp > 63 or a bit depth
\* other than 8 and 10 fails with InvalidInput without acquiring a handle.
C25_HandleReleasedOnce ==
    /\ svtLib.acquired <= 1
    /\ svtLib.released <= svtLib.acquired
    /\ ~svtLib.misuse
    /\ svt.state \in {"failed", "dropped"} => svtLib.released = svtLib.acquired
    /\ svt.state = "live" =>
           (svtLib.handle = "live" /\ svtLib.acquired = 1 /\ svtLib.released = 0)
    /\ (svtLast.op = "new" /\ ~SvtConfigValid(svtCfg)) =>
           (svtLast.res = Err("InvalidInput") /\ svtLib.acquired = 0)

C25_Witness ==
    /\ svtLast.op = "new"
    /\ svtLast.res = Err("Codec")
    /\ svtCfg.set_parameter_ok
    /\ ~svtCfg.enc_init_ok
    /\ svtLib.acquired = 1
    /\ svtLib.released = 1
    /\ svtLib.handle = "released"

\* C26: finish() returns the packets of all frames submitted before it: when
\* it returns, every picture the library accepted has been handed out.
C26_FinishDrainsSvt ==
    (svtLast.op = "finish" /\ svtLast.res.tag = "Ok") =>
        /\ Len(svtOut) = svtLib.submitted
        /\ svtLib.eos_delivered

(***************************************************************************)
(* Av1Encoder::with_config: the threads and the tile counts handed to the  *)
(* rav1e configuration.  cores is the answer of num_cpus::get().           *)
(***************************************************************************)
ConfigThreads(config, cores) ==
    IF config.threads = 0 THEN cores ELSE config.threads

ConfigTiles(width, height, config, threads) ==
    IF config.tile_cols = 0 \/ config.tile_rows = 0
    THEN calculate_tiles(width, height, threads)
    ELSE <<config.tile_cols, config.tile_rows>>

WithConfig(width, height, config, cores) ==
    LET threads == ConfigThreads(config, cores)
        tiles == ConfigTiles(width, height, config, threads)
    IN [threads |-> threads, tile_cols |-> tiles[1], tile_rows |-> tiles[2]]

ConfigSizes == {<<64, 64>>, <<640, 480>>, <<1920, 1080>>, <<3840, 2160>>}
ConfigTileFields == {0, 1, 2, 8}
ConfigCores == {1, 4}

CfgInit ==
    /\ \E d \in ConfigSizes, tc \in ConfigTileFields, tr \in ConfigTileFields,
          t \in {0, 2, MaxThreads}, n \in ConfigCores :
           cfgIn = [width |-> d[1], height |-> d[2], tile_cols |-> tc,
                    tile_rows |-> tr, threads |-> t, cores |-> n]
    /\ cfgOut = CfgUnresolved

CfgWithConfig ==
    /\ cfgOut = CfgUnresolved
    /\ cfgOut' = WithConfig(cfgIn.width, cfgIn.height, cfgIn, cfgIn.cores)
    /\ UNCHANGED cfgIn

InitConfig == EncIdle /\ TilesIdle /\ IvfIdle /\ Mp4Idle /\ Y4mIdle /\ FrameIdle /\ SvtIdle /\ CfgInit /\ PipeIdle

NextConfig == CfgWithConfig /\ UNCHANGED encVars /\ UNCHANGED tileVars /\ UNCHANGED ivfVars /\ UNCHANGED mp4Vars /\ UNCHANGED y4mVars /\ UNCHANGED frameVars /\ UNCHANGED svtVars /\ UNCHANGED pipeVars

SpecConfig == InitConfig /\ [][NextConfig]_vars

\* C29: with_config treats the tile fields independently: a nonzero tile_cols
\* (resp. tile_rows) reaches the encoder unchanged and only a field equal to 0
\* is replaced by the value of calculate_tiles; threads = 0 is replaced by the
\* core count and a nonzero threads value is used as given.
C29_TileFieldsIndependent ==
    cfgOut # CfgUnresolved =>
        LET auto == calculate_tiles(cfgIn.width, cfgIn.height, cfgOut.threads)
        IN /\ cfgOut.threads = IF cfgIn.threads = 0 THEN cfgIn.cores ELSE cfgIn.threads
           /\ cfgIn.tile_cols # 0 => cfgOut.tile_cols = cfgIn.tile_cols
           /\ cfgIn.tile_rows # 0 => cfgOut.tile_rows = cfgIn.tile_rows
           /\ cfgIn.tile_cols = 0 => cfgOut.tile_cols = auto[1]
           /\ cfgIn.tile_rows = 0 => cfgOut.tile_rows = auto[2]

(***************************************************************************)
(* handle_encode: frames are read from the Y4M input, sent to an           *)
(* Av1Encoder and the packets drained after each frame are written to an   *)
(* IvfMuxer; then end-of-stream is sent and the final drain is written.    *)
(* The input is a well-formed file of frames_left frames of one format;    *)
(* the encoder and the muxer are the ones modelled above.                  *)
(***************************************************************************)
LoopPacket(packet_data, frame_count) ==
    [stream_index |-> 0, data |-> packet_data, pts |-> Some(frame_count),
     dts |-> None, is_keyframe |-> (frame_count = 0)]

FlushPacket(packet_data, frame_count) ==
    [stream_index |-> 0, data |-> packet_data, pts |-> Some(frame_count),
     dts |-> None, is_keyframe |-> FALSE]

PipeFormats == {"Yuv420p", "Yuv422p"}

PipeFps == <<30, 1>>

\* The output file: one that takes every byte, and one whose device is full
\* after the file header and one frame header.
PipeWriters ==
    {[limit |-> None, heals |-> FALSE, failed |-> FALSE],
     [limit |-> Some(44), heals |-> FALSE, failed |-> FALSE]}

PipeInit ==
    /\ \E w \in FrameSizes, h \in FrameSizes, wr \in PipeWriters :
           LET r == IvfMuxerNew(wr, w, h, PipeFps[1], PipeFps[2])
           IN /\ enc = [width |-> w, height |-> h]
              /\ mux = r.mux
              /\ sink = r.sink
              /\ ivfArgs = <<w, h, PipeFps[1], PipeFps[2]>>
              /\ writer = r.writer
    /\ \E la \in 0..MaxLookahead, plan \in HiddenPlans : ctx = NewContext(la, plan)
    /\ lastCall = NoCall
    /\ received = <<>>
    /\ eos = FALSE
    /\ finished = FALSE
    /\ written = <<>>
    /\ ivfLast = [IvfNoCall EXCEPT !.op = "new"]
    /\ rejected = FALSE
    /\ \E n \in 0..MaxFrames, fmt \in PipeFormats :
           pipe = [pc |-> "read", frames_left |-> n, frame_count |-> 0, format |-> fmt]
    /\ pipeOut = <<>>

\* muxer.write_packet(packet)?, then the loop at pc next goes on.
PipeWrite(packet, next) ==
    LET w == WritePacket(mux, sink, writer, packet)
    IN /\ mux' = w.mux
       /\ sink' = w.sink
       /\ written' = IF w.res.tag = "Ok"
                     THEN Append(written, [data |-> packet.data, pts |-> packet.pts,
                                           timestamp |-> w.timestamp,
                                           at |-> Len(sink)])
                     ELSE written
       /\ rejected' = (rejected \/ w.res = Err("InvalidInput"))
       /\ writer' = w.writer
       /\ ivfLast' = [op |-> "write_packet", res |-> w.res,
                      stream_index |-> packet.stream_index,
                      sinkBefore |-> sink, countBefore |-> mux.frame_count,
                      frame |-> FrameBytes(mux, packet)]
       /\ pipeOut' = IF w.res.tag = "Ok" THEN Append(pipeOut, packet) ELSE pipeOut
       /\ pipe' = [pipe EXCEPT !.pc = IF w.res.tag = "Ok" THEN next ELSE "failed"]
       /\ UNCHANGED ivfArgs

\* while let Some(frame) = demuxer.read_frame()? { encoder.send_frame(Some(..))?
PipeSendFrame ==
    /\ pipe.pc = "read"
    /\ pipe.frames_left > 0
    /\ LET f == [width |-> enc.width, height |-> enc.height, format |-> pipe.format]
           r == SendFrameSome(enc, ctx, f)
       IN /\ ctx' = r.ctx
          /\ lastCall' = Call("send_frame", f, r, ctx)
          /\ pipe' = [pipe EXCEPT !.pc = IF r.res.tag = "Ok" THEN "drain" ELSE "failed",
                                  !.frames_left = @ - 1]
    /\ UNCHANGED <<enc, received, eos, finished, pipeOut>>
    /\ UNCHANGED ivfVars

\* while let Some(packet_data) = encoder.receive_packet()? { write } frame_count += 1
PipeDrain ==
    /\ pipe.pc = "drain"
    /\ LET r == ReceivePacket(ctx)
       IN /\ ctx' = r.ctx
          /\ lastCall' = Call("receive_packet", NoFrame, r, ctx)
          /\ received' = IF r.res.tag = "Ok" THEN received \o r.res.val ELSE received
          /\ IF r.res.tag = "Err"
             THEN /\ pipe' = [pipe EXCEPT !.pc = "failed"]
                  /\ UNCHANGED pipeOut
                  /\ UNCHANGED ivfVars
             ELSE IF r.res.val = None
             THEN /\ pipe' = [pipe EXCEPT !.pc = "read", !.frame_count = @ + 1]
                  /\ UNCHANGED pipeOut
                  /\ UNCHANGED ivfVars
             ELSE PipeWrite(LoopPacket(r.res.val, pipe.frame_count), "drain")
    /\ UNCHANGED <<enc, eos, finished>>

\* read_frame answered Ok(None): encoder.send_frame(None)?
PipeSendEos ==
    /\ pipe.pc = "read"
    /\ pipe.frames_left = 0
    /\ LET r == SendFrameNone(ctx)
       IN /\ ctx' = r.ctx
          /\ lastCall' = Call("send_eos", NoFrame, r, ctx)
          /\ eos' = TRUE
          /\ pipe' = [pipe EXCEPT !.pc = IF r.res.tag = "Ok" THEN "flush" ELSE "failed"]
    /\ UNCHANGED <<enc, received, finished, pipeOut>>
    /\ UNCHANGED ivfVars

\* while let Some(packet_data) = encoder.receive_packet()? { write } muxer.finalize()?
PipeFlush ==
    /\ pipe.pc = "flush"
    /\ LET r == ReceivePacket(ctx)
       IN /\ ctx' = r.ctx
          /\ lastCall' = Call("receive_packet", NoFrame, r, ctx)
          /\ received' = IF r.res.tag = "Ok" THEN received \o r.res.val ELSE received
          /\ IF r.res.tag = "Err"
             THEN /\ pipe' = [pipe EXCEPT !.pc = "failed"]
                  /\ UNCHANGED pipeOut
                  /\ UNCHANGED ivfVars
             ELSE IF r.res.val = None
             THEN \E flushed \in BOOLEAN :
                  LET z == Finalize(mux, sink, flushed)
                  IN /\ mux' = z.mux
                     /\ sink' = z.sink
                     /\ ivfLast' = [op |-> "finalize", res |-> z.res, stream_index |-> 0,
                                    sinkBefore |-> sink, countBefore |-> mux.frame_count,
                                    frame |-> <<>>]
                     /\ pipe' = [pipe EXCEPT !.pc = IF z.res.tag = "Ok" THEN "done"
                                                    ELSE "failed"]
                     /\ UNCHANGED <<written, rejected, writer, ivfArgs, pipeOut>>
             ELSE PipeWrite(FlushPacket(r.res.val, pipe.frame_count), "flush")
    /\ UNCHANGED <<enc, eos, finished>>

InitEncode == PipeInit /\ TilesIdle /\ Mp4Idle /\ Y4mIdle /\ FrameIdle /\ SvtIdle /\ CfgIdle

NextEncode ==
    \/ PipeSendFrame /\ UNCHANGED tileVars /\ UNCHANGED mp4Vars /\ UNCHANGED y4mVars /\ UNCHANGED frameVars /\ UNCHANGED svtVars /\ UNCHANGED cfgVars
    \/ PipeDrain /\ UNCHANGED tileVars /\ UNCHANGED mp4Vars /\ UNCHANGED y4mVars /\ UNCHANGED frameVars /\ UNCHANGED svtVars /\ UNCHANGED cfgVars
    \/ PipeSendEos /\ UNCHANGED tileVars /\ UNCHANGED mp4Vars /\ UNCHANGED y4mVars /\ UNCHANGED frameVars /\ UNCHANGED svtVars /\ UNCHANGED cfgVars
    \/ PipeFlush /\ UNCHANGED tileVars /\ UNCHANGED mp4Vars /\ UNCHANGED y4mVars /\ UNCHANGED frameVars /\ UNCHANGED svtVars /\ UNCHANGED cfgVars

SpecEncode == InitEncode /\ [][NextEncode]_vars

\* C30: every packet handle_encode writes to the muxer carries its own
\* timestamp: the pts values of successively written packets are strictly
\* increasing, also with a lookahead delay or several packets in the final
\* flush, and no packet but the first written one is flagged as keyframe.
C30_WrittenPtsStrictlyIncreasing ==
    /\ \A i \in 1..Len(pipeOut) : \A j \in 1..Len(pipeOut) :
           i < j => pipeOut[i].pts[1] < pipeOut[j].pts[1]
    /\ \A i \in 2..Len(pipeOut) : ~pipeOut[i].is_keyframe

====
